---- MODULE Spec2Model ----
(***************************************************************************)
(* headview: the redirect-following request engine (PerformGetRequest,     *)
(* performGetRequestRecursive) and the bounded-concurrency resource-size   *)
(* collector (calculateSize, fetchResource) of src/network/client.go.      *)
(*                                                                         *)
(* Spec     : one top-level PerformGetRequest call against an arbitrary    *)
(*            server (statuses, Location headers, failures, latencies).    *)
(* SpecSize : one calculateSize call, its spawning loop and fetch units.   *)
(* SpecPure : the helper functions ExtractConnectionDurations,             *)
(*            getTLSVersion and AddDefaultProtocol applied to drawn inputs.*)
(* SpecTrace: one attempt's httptrace callbacks (createHTTPTrace) written  *)
(*            into the attempt's TimingsCommon while the engine uses it.   *)
(* SpecMain : the command-line flow of src/main.go without -size: the      *)
(*            request, its redirects, and the timing output.               *)
(***************************************************************************)
EXTENDS Integers, Sequences, FiniteSets, TLC

(***************************************************************************)
(* Bounds of the model and constants of the program.                       *)
(***************************************************************************)
\* The clock never passes MaxClock: every latency is drawn from 0..(MaxClock - now).
MaxClock == 1

\* maxDepth, the last argument of the call at client.go:63.
maxDepth == 10

\* The most lifecycle events the transport delivers to one attempt's trace.
MaxEvents == 3

\* The most redirects the servers answer to one run of main.
MaxRedirects == 2

(***************************************************************************)
(* Values.                                                                 *)
(***************************************************************************)
\* A URL string is <<id, canonical>>: id names the resource, canonical says
\* whether the string is in the form url.URL.String() prints.  The user may
\* type a non-canonical string; location.String() is always canonical.
NoURL == <<0, TRUE>>

\* (*url.URL).String() of the resolved Location: the canonical string of the target.
LocationString(id) == <<id, TRUE>>

\* The strings the user can pass as urlArg: resource 1, typed either way.
InitialURLs == {<<1, c>> : c \in BOOLEAN}

\* The client's redirect policies: nil, a caller's own func, and the
\* no-follow func installed at client.go:54.
CallerPolicies == {"nil", "callerFunc"}
NoFollow == "ErrUseLastResponse"

\* error values; nil is NoErr.
NoErr == [kind |-> "nil", url |-> NoURL, cause |-> "", n |-> 0]
ErrRedirectLoop(u) == [kind |-> "redirect loop detected", url |-> u, cause |-> "", n |-> 0]
ErrMaxDepth(m) == [kind |-> "max redirect depth reached", url |-> NoURL, cause |-> "", n |-> m]
ErrCreate(c) == [kind |-> "error creating request", url |-> NoURL, cause |-> c, n |-> 0]
ErrSend(c) == [kind |-> "error sending request", url |-> NoURL, cause |-> c, n |-> 0]
ErrBody(c) == [kind |-> "error reading response body", url |-> NoURL, cause |-> c, n |-> 0]
ErrLocation(c) == [kind |-> "error reading redirect location", url |-> NoURL, cause |-> c, n |-> 0]

\* What can make client.Do fail: the dial (DNS, connect, TLS) or the 30 s timeout.
TransportCauses == {"dial", "timeout"}

\* The server behind resource id: its HTTP major version and whether it speaks TLS.
ProtoMajorOf(id) == 1 + (id % 3)
TLSOf(id) == id % 2 = 0
ProtoString(major) == IF major = 1 THEN "HTTP/1.1" ELSE IF major = 2 THEN "HTTP/2.0" ELSE "HTTP/3.0"
AddrOf(u) == u[1]

\* The statuses a server answers with, and the Location headers of a 302:
\* absent (resp.Location() gives ErrNoLocation), malformed, or a reference.
\* A 304 is a 3xx that carries no Location.
Statuses == {200, 404, 302, 304}
NoLocation == [kind |-> "absent", id |-> 0]
BadLocation == [kind |-> "malformed", id |-> 0]
RefLocation(id) == [kind |-> "ref", id |-> id]

NoResp == [StatusCode |-> 0, Location |-> NoLocation, ProtoMajor |-> 0, TLS |-> FALSE, Proto |-> ""]

\* TimingsCommon as the engine sees it: what the trace wrote, and the classification.
ZeroTimes == [TTFB |-> 0, RemoteAddr |-> 0, Protocol |-> "", HTTPVersion |-> ""]

\* var timeStats Timings
ZeroTimings == [CommonTimings |-> <<>>, RequestSendingTime |-> 0, ServerProcessingTime |-> 0,
                TotalRequestTime |-> 0, ContentTransferTime |-> 0]

VARIABLES
  checkRedirect,           \* client.CheckRedirect
  callerPolicy,            \* the policy the caller configured before the call
  originalRedirectPolicy,  \* PerformGetRequest's saved copy
  pc,                      \* where the call stands
  urlArg, depth, visited,  \* arguments of the current performGetRequestRecursive frame
  timeStats, responseInfos,\* the accumulators
  times, resp,             \* locals of the current frame
  start, requestSendingTime, contentSize, contentTransferTime,
  retErr,                  \* the error the call returns
  now,                     \* the wall clock
  requested                \* the URLs client.Do was called for, in order

engineVars == <<checkRedirect, callerPolicy, originalRedirectPolicy, pc, urlArg, depth, visited,
                timeStats, responseInfos, times, resp, start, requestSendingTime, contentSize,
                contentTransferTime, retErr, now, requested>>

VARIABLES
  concurrency,             \* the concurrency argument
  doc,                     \* the links of the document, in document order (resourceURLs)
  fails,                   \* the fetch units whose fetch fails
  spc,                     \* where PerformGetSize / calculateSize stands
  idx,                     \* the links the loop of line 397 has passed
  sem, wg,                 \* tokens in the semaphore channel, the WaitGroup counter
  errs,                    \* the buffered error channel
  resourceMap,             \* content type -> resources
  resourceLock,            \* 0, or the fetch unit holding the mutex
  g,                       \* fetch unit -> its position
  fetched,                 \* fetch unit -> what fetchResource returned to it
  bucket,                  \* fetch unit -> the bucket it read from the map
  warnings,                \* the warnings printed
  sizeRet                  \* what calculateSize returned

sizeVars == <<concurrency, doc, fails, spc, idx, sem, wg, errs, resourceMap, resourceLock, g,
              fetched, bucket, warnings, sizeRet>>

VARIABLES
  fn,                      \* the helper function called
  arg,                     \* its argument
  results                  \* what it returned, one entry per application

pureVars == <<fn, arg, results>>

VARIABLES
  traced,                  \* *times, the TimingsCommon the trace callbacks write
  waitForServerStart,      \* createHTTPTrace's local, set after a TLS handshake
  mu,                      \* createHTTPTrace's mutex: "" or the callback holding it
  cb,                      \* the callback the transport is running
  clock,                   \* time.Now(); the zero time.Time is 0
  observed,                \* event name -> time of its last delivery, 0 if never
  dialStarted,             \* dialled address -> time of its last ConnectStart, 0 if never
  tpc,                     \* where the attempt's frame stands
  appended                 \* what line 115 has appended for this attempt

traceVars == <<traced, waitForServerStart, mu, cb, clock, observed, dialStarted, tpc,
               appended>>

VARIABLES
  mpc,                     \* where main stands
  headersArg,              \* the -headers flag
  mdepth,                  \* the redirects main.performGetRequest has followed
  gotByte,                 \* the current request's GotFirstResponseByte has fired
  mresp,                   \* resp of the current main.performGetRequest frame
  CommonTimmings,          \* timeStats.CommonTimmings of package main
  output                   \* the lines printed, in order

mainVars == <<mpc, headersArg, mdepth, gotByte, mresp, CommonTimmings, output>>

vars == <<engineVars, sizeVars, pureVars, traceVars, mainVars>>

\* main.go is not run while the engine, the collector, a helper or a trace is.
MainIdle ==
  /\ mpc = "off"
  /\ headersArg = FALSE
  /\ mdepth = 0
  /\ gotByte = FALSE
  /\ mresp = "none"
  /\ CommonTimmings = <<>>
  /\ output = <<>>

\* var times TimingsCommon, part_000:18-50.
ZeroTimingsCommon ==
  [DNSLookupStart |-> 0, DNSLookupTime |-> 0, TCPConnectStart |-> 0, TCPConnTime |-> 0,
   TLSHandshakeStart |-> 0, TLSHandshakeTime |-> 0, TLSVersion |-> "", TLSCipherSuite |-> "",
   TLSResumption |-> FALSE, WaitingForServerTime |-> 0, FirstByteTime |-> 0, TTFB |-> 0,
   LocalAddr |-> "", RemoteAddr |-> "", ConnectionReused |-> FALSE, Protocol |-> "",
   HTTPVersion |-> ""]

\* The events of httptrace.ClientTrace that createHTTPTrace handles with an effect.
EventNames == {"DNSStart", "DNSDone", "ConnectStart", "ConnectDone", "TLSHandshakeStart",
               "TLSHandshakeDone", "GotConn", "GotFirstResponseByte"}

\* An address is its string cut at the colons: "10.0.0.1:443" is <<"10.0.0.1", ":", "443">>.
NoAddr == <<>>
NoTLSState == [Version |-> 0, CipherSuite |-> 0, DidResume |-> FALSE]
NoConn == [LocalAddr |-> NoAddr, RemoteAddr |-> NoAddr]
NoEvent == [name |-> "", addr |-> NoAddr, err |-> FALSE, state |-> NoTLSState,
            Reused |-> FALSE, Conn |-> NoConn]
NoCallback == [ev |-> NoEvent, section |-> 0]

\* The addresses the transport dials: host:port, or a name without a port.
DialAddrs == {<<"10.0.0.1", ":", "443">>, <<"sock">>}

\* No attempt is traced while the engine, the collector or a helper runs.
TraceIdle ==
  /\ traced = <<>>
  /\ waitForServerStart = 0
  /\ mu = ""
  /\ cb = <<>>
  /\ clock = 0
  /\ observed = <<>>
  /\ dialStarted = <<>>
  /\ tpc = "off"
  /\ appended = <<>>

Latencies == 0..(MaxClock - now)

(***************************************************************************)
(* PerformGetRequest, client.go:45-66.                                     *)
(***************************************************************************)
InitEngine ==
  /\ callerPolicy \in CallerPolicies
  /\ checkRedirect = callerPolicy
  /\ originalRedirectPolicy = "nil"
  /\ pc = "idle"
  /\ urlArg = NoURL
  /\ depth = 0
  /\ visited = {}
  /\ timeStats = ZeroTimings
  /\ responseInfos = <<>>
  /\ times = ZeroTimes
  /\ resp = NoResp
  /\ start = 0
  /\ requestSendingTime = 0
  /\ contentSize = 0
  /\ contentTransferTime = 0
  /\ retErr = NoErr
  /\ now = 0
  /\ requested = <<>>

\* Lines 45-63: the accumulators, the visited set, the policy override, the first call.
Call ==
  /\ pc = "idle"
  /\ \E u \in InitialURLs : urlArg' = u
  /\ timeStats' = ZeroTimings
  /\ responseInfos' = <<>>
  /\ visited' = {}
  /\ originalRedirectPolicy' = checkRedirect
  /\ checkRedirect' = NoFollow
  /\ depth' = 0
  /\ pc' = "enter"
  /\ UNCHANGED <<callerPolicy, times, resp, start, requestSendingTime, contentSize,
                 contentTransferTime, retErr, now, requested>>
  /\ UNCHANGED <<sizeVars, pureVars, traceVars, mainVars>>

\* The deferred func of lines 58-60.
DeferredRestoreOnSuccessOnly == IF retErr = NoErr THEN originalRedirectPolicy ELSE checkRedirect
DeferredRestore == originalRedirectPolicy

\* Line 65, after the deferred restore.
Return ==
  /\ pc = "return"
  /\ checkRedirect' = DeferredRestore
  /\ pc' = "returned"
  /\ UNCHANGED <<callerPolicy, originalRedirectPolicy, urlArg, depth, visited, timeStats,
                 responseInfos, times, resp, start, requestSendingTime, contentSize,
                 contentTransferTime, retErr, now, requested>>
  /\ UNCHANGED <<sizeVars, pureVars, traceVars, mainVars>>

(***************************************************************************)
(* performGetRequestRecursive, client.go:69-178.                           *)
(***************************************************************************)
\* Line 84.
DepthExceededOffByOne(d, m) == d >= m
DepthExceeded(d, m) == d > m

\* Lines 78-86: the loop check comes first, then the depth check.
EntryErrorDepthFirst(u, v, d, m) ==
  IF DepthExceeded(d, m) THEN ErrMaxDepth(m)
  ELSE IF u \in v THEN ErrRedirectLoop(u)
  ELSE NoErr
EntryError(u, v, d, m) ==
  IF u \in v THEN ErrRedirectLoop(u)
  ELSE IF DepthExceeded(d, m) THEN ErrMaxDepth(m)
  ELSE NoErr

\* Line 88.
MarkVisitedForgotten(v, u) == v
MarkVisited(v, u) == v \cup {u}

\* Lines 78-88.
Enter ==
  /\ pc = "enter"
  /\ LET e == EntryError(urlArg, visited, depth, maxDepth) IN
       IF e # NoErr
       THEN /\ retErr' = e
            /\ pc' = "return"
            /\ UNCHANGED visited
       ELSE /\ visited' = MarkVisited(visited, urlArg)
            /\ pc' = "newreq"
            /\ UNCHANGED retErr
  /\ UNCHANGED <<checkRedirect, callerPolicy, originalRedirectPolicy, urlArg, depth, timeStats,
                 responseInfos, times, resp, start, requestSendingTime, contentSize,
                 contentTransferTime, now, requested>>
  /\ UNCHANGED <<sizeVars, pureVars, traceVars, mainVars>>

\* Lines 90-102: http.NewRequest, the fresh TimingsCommon and its trace.
NewRequestOK ==
  /\ pc = "newreq"
  /\ times' = ZeroTimes
  /\ resp' = NoResp
  /\ pc' = "do"
  /\ UNCHANGED <<checkRedirect, callerPolicy, originalRedirectPolicy, urlArg, depth, visited,
                 timeStats, responseInfos, start, requestSendingTime, contentSize,
                 contentTransferTime, retErr, now, requested>>
  /\ UNCHANGED <<sizeVars, pureVars, traceVars, mainVars>>

\* Lines 90-93: http.NewRequest rejects the URL.
NewRequestFail ==
  /\ pc = "newreq"
  /\ retErr' = ErrCreate("parse")
  /\ pc' = "return"
  /\ UNCHANGED <<checkRedirect, callerPolicy, originalRedirectPolicy, urlArg, depth, visited,
                 timeStats, responseInfos, times, resp, start, requestSendingTime, contentSize,
                 contentTransferTime, now, requested>>
  /\ UNCHANGED <<sizeVars, pureVars, traceVars, mainVars>>

\* The ids a Location header can refer to: the resource attempted last (a redirect
\* to itself), the one before it (a ping-pong), and one not attempted yet.
MaxId(v) == IF v = {} THEN 0 ELSE CHOOSE i \in {u[1] : u \in v} : \A u \in v : u[1] <= i
Targets(v) == {j \in {MaxId(v) - 1, MaxId(v), MaxId(v) + 1} : j >= 1}

\* The responses the server behind u can give.
Responses(u, v) ==
  {[StatusCode |-> s, Location |-> l, ProtoMajor |-> ProtoMajorOf(u[1]), TLS |-> TLSOf(u[1]),
    Proto |-> ProtoString(ProtoMajorOf(u[1]))] :
     s \in Statuses,
     l \in {NoLocation, BadLocation} \cup {RefLocation(j) : j \in Targets(v)}}

\* What the trace of lines 98-102 has written into times when client.Do returns a
\* response after d: on a new connection the first byte came d after the connect
\* started; on a reused one there was no connect and TTFB stays zero (lines 283-286).
TraceResults(u, d) == {[ZeroTimes EXCEPT !.TTFB = t, !.RemoteAddr = AddrOf(u)] : t \in {0, d}}

\* Lines 104-111, client.Do fails: the error is returned before anything is appended.
\* No clock is read after a failure, so the time the failed send took is left out.
DoFailCommitted ==
  /\ pc = "do"
  /\ \E c \in TransportCauses : retErr' = ErrSend(c)
  /\ timeStats' = [timeStats EXCEPT !.CommonTimings = Append(@, times)]
  /\ start' = now
  /\ requested' = Append(requested, urlArg)
  /\ pc' = "return"
  /\ UNCHANGED <<checkRedirect, callerPolicy, originalRedirectPolicy, urlArg, depth, visited,
                 responseInfos, times, resp, requestSendingTime, contentSize,
                 contentTransferTime, now>>
  /\ UNCHANGED <<sizeVars, pureVars, traceVars, mainVars>>
DoFail ==
  /\ pc = "do"
  /\ \E c \in TransportCauses : retErr' = ErrSend(c)
  /\ start' = now
  /\ requested' = Append(requested, urlArg)
  /\ pc' = "return"
  /\ UNCHANGED <<checkRedirect, callerPolicy, originalRedirectPolicy, urlArg, depth, visited,
                 timeStats, responseInfos, times, resp, requestSendingTime, contentSize,
                 contentTransferTime, now>>
  /\ UNCHANGED <<sizeVars, pureVars, traceVars, mainVars>>

\* Lines 104-107, client.Do returns a response.
DoOK ==
  /\ pc = "do"
  /\ \E d \in Latencies :
       /\ now' = now + d
       /\ requestSendingTime' = d
       /\ \E t \in TraceResults(urlArg, d) : times' = t
  /\ \E r \in Responses(urlArg, visited) :
       /\ (r.StatusCode # 302 => r.Location = NoLocation)
       /\ resp' = r
  /\ start' = now
  /\ requested' = Append(requested, urlArg)
  /\ pc' = "append"
  /\ UNCHANGED <<checkRedirect, callerPolicy, originalRedirectPolicy, urlArg, depth, visited,
                 timeStats, responseInfos, contentSize, contentTransferTime, retErr>>
  /\ UNCHANGED <<sizeVars, pureVars, traceVars, mainVars>>

\* Line 115: times is appended by value.
AppendTimingFirstOnly(cts, t) == IF cts = <<>> THEN Append(cts, t) ELSE cts
AppendTiming(cts, t) == Append(cts, t)

\* Lines 115-124, the body is drained (one byte per clock unit).
DrainOK ==
  /\ pc = "append"
  /\ timeStats' = [timeStats EXCEPT !.CommonTimings = AppendTiming(@, times)]
  /\ \E d \in Latencies :
       /\ now' = now + d
       /\ contentSize' = d
       /\ contentTransferTime' = d
  /\ pc' = "classify"
  /\ UNCHANGED <<checkRedirect, callerPolicy, originalRedirectPolicy, urlArg, depth, visited,
                 responseInfos, times, resp, start, requestSendingTime, retErr, requested>>
  /\ UNCHANGED <<sizeVars, pureVars, traceVars, mainVars>>

\* Lines 115-128, io.Copy fails.
DrainFail ==
  /\ pc = "append"
  /\ timeStats' = [timeStats EXCEPT !.CommonTimings = AppendTiming(@, times)]
  /\ retErr' = ErrBody("read")
  /\ pc' = "return"
  /\ UNCHANGED <<checkRedirect, callerPolicy, originalRedirectPolicy, urlArg, depth, visited,
                 responseInfos, times, resp, start, requestSendingTime, contentSize,
                 contentTransferTime, now, requested>>
  /\ UNCHANGED <<sizeVars, pureVars, traceVars, mainVars>>

\* Lines 136-146: the major version is tested before resp.TLS.
ProtocolLabelTLSFirst(major, hasTLS) ==
  IF hasTLS THEN "HTTPS"
  ELSE IF major = 2 THEN "HTTP/2"
  ELSE IF major = 3 THEN "HTTP/3"
  ELSE "HTTP"
ProtocolLabel(major, hasTLS) ==
  IF major = 2 THEN "HTTP/2"
  ELSE IF major = 3 THEN "HTTP/3"
  ELSE IF hasTLS THEN "HTTPS"
  ELSE "HTTP"

\* Lines 130-146: the local times is classified.
Classify ==
  /\ pc = "classify"
  /\ times' = [times EXCEPT !.HTTPVersion = IF resp.Proto # "" THEN resp.Proto ELSE @,
                            !.Protocol = ProtocolLabel(resp.ProtoMajor, resp.TLS)]
  /\ pc' = "store"
  /\ UNCHANGED <<checkRedirect, callerPolicy, originalRedirectPolicy, urlArg, depth, visited,
                 timeStats, responseInfos, resp, start, requestSendingTime, contentSize,
                 contentTransferTime, retErr, now, requested>>
  /\ UNCHANGED <<sizeVars, pureVars, traceVars, mainVars>>

\* Line 216: ConnectDone stores the dialled address without its port, another string
\* than the one GotConn stores at line 256.
DialledHostOf(u) == 0 - u[1]

\* Lines 206-221 after client.Do has returned and the record was appended: ConnectDone
\* of a dial that was still running when the request got its connection.  The
\* callback holds &times, the local of this hop's frame.
LateCallbackOnStored ==
  /\ pc \in {"classify", "store", "redirect"}
  /\ times.RemoteAddr # DialledHostOf(urlArg)
  /\ times' = [times EXCEPT !.RemoteAddr = DialledHostOf(urlArg)]
  /\ timeStats' = [timeStats EXCEPT !.CommonTimings[Len(timeStats.CommonTimings)].RemoteAddr =
                                       DialledHostOf(urlArg)]
  /\ UNCHANGED <<checkRedirect, callerPolicy, originalRedirectPolicy, pc, urlArg, depth, visited,
                 responseInfos, resp, start, requestSendingTime, contentSize,
                 contentTransferTime, retErr, now, requested>>
  /\ UNCHANGED <<sizeVars, pureVars, traceVars, mainVars>>
LateCallback ==
  /\ pc \in {"classify", "store", "redirect"}
  /\ times.RemoteAddr # DialledHostOf(urlArg)
  /\ times' = [times EXCEPT !.RemoteAddr = DialledHostOf(urlArg)]
  /\ UNCHANGED <<checkRedirect, callerPolicy, originalRedirectPolicy, pc, urlArg, depth, visited,
                 timeStats, responseInfos, resp, start, requestSendingTime, contentSize,
                 contentTransferTime, retErr, now, requested>>
  /\ UNCHANGED <<sizeVars, pureVars, traceVars, mainVars>>

\* Line 158.
IsFirstResponseAlways(ris) == TRUE
IsFirstResponse(ris) == Len(ris) = 1

\* Lines 148-164: the ResponseInfo is appended; the first hop sets the four top-level
\* durations.  The clock may move between the two time.Since(start) of lines 160 and 162.
Store ==
  /\ pc = "store"
  /\ responseInfos' = Append(responseInfos,
                             [Response |-> resp, URL |-> urlArg, ContentSize |-> contentSize,
                              RequestSendingTime |-> requestSendingTime, StartTime |-> start])
  /\ IF IsFirstResponse(responseInfos')
     THEN \E eps \in Latencies :
            LET ttfb == now - start IN
            /\ now' = now + eps
            /\ timeStats' = [timeStats EXCEPT !.RequestSendingTime = requestSendingTime,
                                              !.ServerProcessingTime = ttfb - requestSendingTime,
                                              !.TotalRequestTime = now' - start,
                                              !.ContentTransferTime = contentTransferTime]
     ELSE UNCHANGED <<now, timeStats>>
  /\ pc' = "redirect"
  /\ UNCHANGED <<checkRedirect, callerPolicy, originalRedirectPolicy, urlArg, depth, visited,
                 times, resp, start, requestSendingTime, contentSize, contentTransferTime,
                 retErr, requested>>
  /\ UNCHANGED <<sizeVars, pureVars, traceVars, mainVars>>

\* Line 167.
IsRedirectFoundOnly(code) == code = 302
IsRedirect(code) == code >= 300 /\ code < 400

\* Line 174: the depth handed to the next attempt.
NextDepthByTwo(d) == d + 2
NextDepth(d) == d + 1

\* Lines 166-177: a 3xx with a usable Location recurses, a 3xx without one fails,
\* anything else ends the call with nil.
Redirect ==
  /\ pc = "redirect"
  /\ IF IsRedirect(resp.StatusCode)
     THEN IF resp.Location.kind = "ref"
          THEN /\ urlArg' = LocationString(resp.Location.id)
               /\ depth' = NextDepth(depth)
               /\ pc' = "enter"
               /\ UNCHANGED retErr
          ELSE /\ retErr' = ErrLocation(resp.Location.kind)
               /\ pc' = "return"
               /\ UNCHANGED <<urlArg, depth>>
     ELSE /\ retErr' = NoErr
          /\ pc' = "return"
          /\ UNCHANGED <<urlArg, depth>>
  /\ UNCHANGED <<checkRedirect, callerPolicy, originalRedirectPolicy, visited, timeStats,
                 responseInfos, times, resp, start, requestSendingTime, contentSize,
                 contentTransferTime, now, requested>>
  /\ UNCHANGED <<sizeVars, pureVars, traceVars, mainVars>>

(***************************************************************************)
(* PerformGetSize, calculateSize and fetchResource, client.go:330-468.     *)
(***************************************************************************)
\* The most links a document has, and the largest concurrency tried.
MaxRes == 3
MaxConc == 2

\* The concurrency argument: negative, zero, and 1..MaxConc.
ConcurrencyInputs == -1..MaxConc

\* The page, and the references a document can hold: one relative to the page, one
\* absolute on another host.  Both are served as text/css, so that two different
\* Resources can meet in one bucket.
PageURL == [host |-> "site", path |-> "index.html"]
PageType == "text/html"
Links == {[host |-> "", path |-> "a.css"], [host |-> "cdn", path |-> "b.css"]}
Docs == UNION {[1..n -> Links] : n \in 0..MaxRes}

\* baseURL.ResolveReference(resourceURL), line 438.
Resolve(base, link) == [host |-> IF link.host = "" THEN base.host ELSE link.host, path |-> link.path]

\* What the servers send: the Content-Type header and the body length of each URL.
TypeOf(u) == IF u.path \in {"a.css", "b.css"} THEN "text/css" ELSE "text/html"
SizeOf(u) == IF u.path = "a.css" THEN 2 ELSE IF u.path = "b.css" THEN 1 ELSE 3
ContentTypes == {"text/html", "text/css"}

\* A nil *Resource, a nil error, an empty ResourceMap (a missing key reads as nil).
NoResource == [URL |-> [host |-> "", path |-> ""], Size |-> 0, Type |-> ""]
NoFetchErr == [msg |-> "", url |-> [host |-> "", path |-> ""]]
EmptyMap == [t \in ContentTypes |-> <<>>]
NotReturned == [returned |-> FALSE, mapIsNil |-> TRUE, map |-> EmptyMap, err |-> ""]

\* fetchResource, lines 432-468: a Resource and nil, or nil and an error naming the URL.
FetchResourceSwallowingErrors(link, base, failed) ==
  [res |-> [URL |-> Resolve(base, link),
            Size |-> IF failed THEN 0 ELSE SizeOf(Resolve(base, link)),
            Type |-> TypeOf(Resolve(base, link))],
   err |-> NoFetchErr]
FetchResource(link, base, failed) ==
  IF failed
  THEN [res |-> NoResource, err |-> [msg |-> "error fetching resource", url |-> Resolve(base, link)]]
  ELSE [res |-> [URL |-> Resolve(base, link), Size |-> SizeOf(Resolve(base, link)),
                 Type |-> TypeOf(Resolve(base, link))],
        err |-> NoFetchErr]

\* The collector before PerformGetSize is called with a document and a concurrency.
InitSize ==
  /\ concurrency \in ConcurrencyInputs
  /\ doc \in Docs
  /\ fails \in SUBSET (DOMAIN doc)
  /\ spc = "request"
  /\ idx = 0
  /\ sem = 0
  /\ wg = 0
  /\ errs = <<>>
  /\ resourceMap = EmptyMap
  /\ resourceLock = 0
  /\ g = [i \in DOMAIN doc |-> "unborn"]
  /\ fetched = [i \in DOMAIN doc |-> [res |-> NoResource, err |-> NoFetchErr]]
  /\ bucket = [i \in DOMAIN doc |-> <<>>]
  /\ warnings = <<>>
  /\ sizeRet = NotReturned

\* The collector when only the request engine runs.
SizeIdle ==
  /\ concurrency = 1
  /\ doc = <<>>
  /\ fails = {}
  /\ spc = "off"
  /\ idx = 0
  /\ sem = 0
  /\ wg = 0
  /\ errs = <<>>
  /\ resourceMap = EmptyMap
  /\ resourceLock = 0
  /\ g = <<>>
  /\ fetched = <<>>
  /\ bucket = <<>>
  /\ warnings = <<>>
  /\ sizeRet = NotReturned

\* The request engine when only the collector runs.
EngineIdle ==
  /\ InitEngine
  /\ callerPolicy = "nil"

\* PerformGetSize, lines 331-343: the GET of the page succeeds.
SRequestOK ==
  /\ spc = "request"
  /\ spc' = "read"
  /\ UNCHANGED <<concurrency, doc, fails, idx, sem, wg, errs, resourceMap, resourceLock, g,
                 fetched, bucket, warnings, sizeRet>>
  /\ UNCHANGED <<engineVars, pureVars, traceVars, mainVars>>

\* PerformGetSize, lines 331-340: the request cannot be created or sent.
SRequestFail ==
  /\ spc = "request"
  /\ \E e \in {"error creating request for size calculation",
               "error sending request for size calculation"} :
       sizeRet' = [returned |-> TRUE, mapIsNil |-> TRUE, map |-> EmptyMap, err |-> e]
  /\ spc' = "sdone"
  /\ UNCHANGED <<concurrency, doc, fails, idx, sem, wg, errs, resourceMap, resourceLock, g,
                 fetched, bucket, warnings>>
  /\ UNCHANGED <<engineVars, pureVars, traceVars, mainVars>>

\* Lines 348-361: the base URL is parsed and the body read.
SReadBodyOK ==
  /\ spc = "read"
  /\ resourceMap' = EmptyMap
  /\ resourceLock' = 0
  /\ spc' = "page"
  /\ UNCHANGED <<concurrency, doc, fails, idx, sem, wg, errs, g, fetched, bucket, warnings,
                 sizeRet>>
  /\ UNCHANGED <<engineVars, pureVars, traceVars, mainVars>>

\* Lines 358-361: io.Copy of the page body fails.
SReadBodyFail ==
  /\ spc = "read"
  /\ sizeRet' = [returned |-> TRUE, mapIsNil |-> TRUE, map |-> EmptyMap,
                 err |-> "error reading response body"]
  /\ spc' = "sdone"
  /\ UNCHANGED <<concurrency, doc, fails, idx, sem, wg, errs, resourceMap, resourceLock, g,
                 fetched, bucket, warnings>>
  /\ UNCHANGED <<engineVars, pureVars, traceVars, mainVars>>

\* Lines 363-372: the page itself goes into the map, under the lock.
SAddPage ==
  /\ spc = "page"
  /\ resourceLock = 0
  /\ resourceMap' = [resourceMap EXCEPT ![PageType] =
                       Append(@, [URL |-> PageURL, Size |-> SizeOf(PageURL), Type |-> PageType])]
  /\ spc' = "parse"
  /\ UNCHANGED <<concurrency, doc, fails, idx, sem, wg, errs, resourceLock, g, fetched, bucket,
                 warnings, sizeRet>>
  /\ UNCHANGED <<engineVars, pureVars, traceVars, mainVars>>

\* Lines 374-390: the document is parsed and its links collected into resourceURLs.
SParseOK ==
  /\ spc = "parse"
  /\ spc' = "make"
  /\ UNCHANGED <<concurrency, doc, fails, idx, sem, wg, errs, resourceMap, resourceLock, g,
                 fetched, bucket, warnings, sizeRet>>
  /\ UNCHANGED <<engineVars, pureVars, traceVars, mainVars>>

\* Lines 374-377: goquery cannot parse the document; nil is returned, not the map.
SParseFail ==
  /\ spc = "parse"
  /\ sizeRet' = [returned |-> TRUE, mapIsNil |-> TRUE, map |-> EmptyMap,
                 err |-> "error parsing HTML"]
  /\ spc' = "sdone"
  /\ UNCHANGED <<concurrency, doc, fails, idx, sem, wg, errs, resourceMap, resourceLock, g,
                 fetched, bucket, warnings>>
  /\ UNCHANGED <<engineVars, pureVars, traceVars, mainVars>>

\* Lines 392-395: make(chan struct{}, concurrency), the WaitGroup, the error channel.
SMake ==
  /\ spc = "make"
  /\ concurrency >= 0
  /\ sem' = 0
  /\ wg' = 0
  /\ errs' = <<>>
  /\ idx' = 0
  /\ spc' = "loop"
  /\ UNCHANGED <<concurrency, doc, fails, resourceMap, resourceLock, g, fetched, bucket,
                 warnings, sizeRet>>
  /\ UNCHANGED <<engineVars, pureVars, traceVars, mainVars>>

\* Line 393: make with a negative size panics (makechan: size out of range).
SMakePanics ==
  /\ spc = "make"
  /\ concurrency < 0
  /\ spc' = "panic"
  /\ UNCHANGED <<concurrency, doc, fails, idx, sem, wg, errs, resourceMap, resourceLock, g,
                 fetched, bucket, warnings, sizeRet>>
  /\ UNCHANGED <<engineVars, pureVars, traceVars, mainVars>>

\* Lines 397-398: the next link; wg.Add(1).
SLoopNext ==
  /\ spc = "loop"
  /\ idx < Len(doc)
  /\ wg' = wg + 1
  /\ spc' = "acquire"
  /\ UNCHANGED <<concurrency, doc, fails, idx, sem, errs, resourceMap, resourceLock, g, fetched,
                 bucket, warnings, sizeRet>>
  /\ UNCHANGED <<engineVars, pureVars, traceVars, mainVars>>

\* Line 397: no link is left.
SLoopEnd ==
  /\ spc = "loop"
  /\ idx = Len(doc)
  /\ spc' = "wait"
  /\ UNCHANGED <<concurrency, doc, fails, idx, sem, wg, errs, resourceMap, resourceLock, g,
                 fetched, bucket, warnings, sizeRet>>
  /\ UNCHANGED <<engineVars, pureVars, traceVars, mainVars>>

\* Line 399: a send on the semaphore channel goes through while the buffer has room.
\* With capacity 0 it needs a receiver that is already waiting; the only receivers are
\* the deferred releases of fetch units, and none is started before the first send.
CanSendUnbounded(tokens, capacity) == TRUE
CanSend(tokens, capacity) == tokens < capacity

\* Lines 399-401, 416: the semaphore is acquired, then the fetch unit is started.
SAcquireSpawn ==
  /\ spc = "acquire"
  /\ CanSend(sem, concurrency)
  /\ sem' = sem + 1
  /\ g' = [g EXCEPT ![idx + 1] = "fetch"]
  /\ idx' = idx + 1
  /\ spc' = "loop"
  /\ UNCHANGED <<concurrency, doc, fails, wg, errs, resourceMap, resourceLock, fetched, bucket,
                 warnings, sizeRet>>
  /\ UNCHANGED <<engineVars, pureVars, traceVars, mainVars>>

\* Line 419: wg.Wait() blocks until the counter is zero.
WaitDoneAlways(counter) == TRUE
WaitDone(counter) == counter = 0

\* Line 419: wg.Wait() returns.
SWait ==
  /\ spc = "wait"
  /\ WaitDone(wg)
  /\ spc' = "close"
  /\ UNCHANGED <<concurrency, doc, fails, idx, sem, wg, errs, resourceMap, resourceLock, g,
                 fetched, bucket, warnings, sizeRet>>
  /\ UNCHANGED <<engineVars, pureVars, traceVars, mainVars>>

\* Lines 420-428: the error channel is closed and drained into warnings; the map is
\* returned with a nil error.
SFinish ==
  /\ spc = "close"
  /\ warnings' = errs
  /\ errs' = <<>>
  /\ sizeRet' = [returned |-> TRUE, mapIsNil |-> FALSE, map |-> resourceMap, err |-> ""]
  /\ spc' = "sdone"
  /\ UNCHANGED <<concurrency, doc, fails, idx, sem, wg, resourceMap, resourceLock, g, fetched,
                 bucket>>
  /\ UNCHANGED <<engineVars, pureVars, traceVars, mainVars>>

(***************************************************************************)
(* The fetch units, the go func of client.go:401-416.                      *)
(***************************************************************************)
\* Lines 405-411: fetchResource returns; an error goes to the error channel, a
\* Resource to the map.
GFetch ==
  /\ \E i \in DOMAIN doc :
       /\ g[i] = "fetch"
       /\ LET r == FetchResource(doc[i], PageURL, i \in fails) IN
            /\ fetched' = [fetched EXCEPT ![i] = r]
            /\ g' = [g EXCEPT ![i] = IF r.err # NoFetchErr THEN "senderr" ELSE "lock"]
  /\ UNCHANGED <<concurrency, doc, fails, spc, idx, sem, wg, errs, resourceMap, resourceLock,
                 bucket, warnings, sizeRet>>
  /\ UNCHANGED <<engineVars, pureVars, traceVars, mainVars>>

\* Line 395: the error channel is buffered for one error per link.
ErrsCapacityUnbuffered(n) == 0
ErrsCapacity(n) == n

\* Lines 406-408: errs <- err goes through while the buffer has room.
GSendErr ==
  /\ \E i \in DOMAIN doc :
       /\ g[i] = "senderr"
       /\ Len(errs) < ErrsCapacity(Len(doc))
       /\ errs' = Append(errs, fetched[i].err)
       /\ g' = [g EXCEPT ![i] = "release"]
  /\ UNCHANGED <<concurrency, doc, fails, spc, idx, sem, wg, resourceMap, resourceLock, fetched,
                 bucket, warnings, sizeRet>>
  /\ UNCHANGED <<engineVars, pureVars, traceVars, mainVars>>

\* Line 412: resourceLock.Lock() goes through while no fetch unit holds the mutex.
MutexFreeAlways(holder) == TRUE
MutexFree(holder) == holder = 0

\* Line 412: resourceLock.Lock().
GLock ==
  /\ \E i \in DOMAIN doc :
       /\ g[i] = "lock"
       /\ MutexFree(resourceLock)
       /\ resourceLock' = i
       /\ g' = [g EXCEPT ![i] = "read"]
  /\ UNCHANGED <<concurrency, doc, fails, spc, idx, sem, wg, errs, resourceMap, fetched, bucket,
                 warnings, sizeRet>>
  /\ UNCHANGED <<engineVars, pureVars, traceVars, mainVars>>

\* Line 413, right-hand side: the bucket of the resource's type is read.
GRead ==
  /\ \E i \in DOMAIN doc :
       /\ g[i] = "read"
       /\ bucket' = [bucket EXCEPT ![i] = resourceMap[fetched[i].res.Type]]
       /\ g' = [g EXCEPT ![i] = "write"]
  /\ UNCHANGED <<concurrency, doc, fails, spc, idx, sem, wg, errs, resourceMap, resourceLock,
                 fetched, warnings, sizeRet>>
  /\ UNCHANGED <<engineVars, pureVars, traceVars, mainVars>>

\* Line 413: append(resourceMap[resource.Type], *resource).
AppendResourceTwice(b, r) == Append(Append(b, r), r)
AppendResource(b, r) == Append(b, r)

\* Line 413, assignment: the bucket with the resource appended is written back.
GWrite ==
  /\ \E i \in DOMAIN doc :
       /\ g[i] = "write"
       /\ resourceMap' = [resourceMap EXCEPT ![fetched[i].res.Type] =
                            AppendResource(bucket[i], fetched[i].res)]
       /\ g' = [g EXCEPT ![i] = "unlock"]
  /\ UNCHANGED <<concurrency, doc, fails, spc, idx, sem, wg, errs, resourceLock, fetched, bucket,
                 warnings, sizeRet>>
  /\ UNCHANGED <<engineVars, pureVars, traceVars, mainVars>>

\* Line 414: resourceLock.Unlock().
GUnlock ==
  /\ \E i \in DOMAIN doc :
       /\ g[i] = "unlock"
       /\ resourceLock' = 0
       /\ g' = [g EXCEPT ![i] = "release"]
  /\ UNCHANGED <<concurrency, doc, fails, spc, idx, sem, wg, errs, resourceMap, fetched, bucket,
                 warnings, sizeRet>>
  /\ UNCHANGED <<engineVars, pureVars, traceVars, mainVars>>

\* Line 403: <-sem takes one token out of the semaphore channel.
ReleaseTokenLeaked(tokens) == tokens
ReleaseToken(tokens) == tokens - 1

\* Line 403, the deferred release, run on every way out of the fetch unit.
GRelease ==
  /\ \E i \in DOMAIN doc :
       /\ g[i] = "release"
       /\ sem > 0
       /\ sem' = ReleaseToken(sem)
       /\ g' = [g EXCEPT ![i] = "wgdone"]
  /\ UNCHANGED <<concurrency, doc, fails, spc, idx, wg, errs, resourceMap, resourceLock, fetched,
                 bucket, warnings, sizeRet>>
  /\ UNCHANGED <<engineVars, pureVars, traceVars, mainVars>>

\* Line 402, the deferred wg.Done(), run last.
GDone ==
  /\ \E i \in DOMAIN doc :
       /\ g[i] = "wgdone"
       /\ wg' = wg - 1
       /\ g' = [g EXCEPT ![i] = "exited"]
  /\ UNCHANGED <<concurrency, doc, fails, spc, idx, sem, errs, resourceMap, resourceLock, fetched,
                 bucket, warnings, sizeRet>>
  /\ UNCHANGED <<engineVars, pureVars, traceVars, mainVars>>

(***************************************************************************)
(* The helper functions: ExtractConnectionDurations (part_000:72-84),      *)
(* getTLSVersion (client.go:292-306), AddDefaultProtocol (client.go:21-27).*)
(***************************************************************************)
\* The most hops of a Timing Report handed to ExtractConnectionDurations, and the
\* most times AddDefaultProtocol is applied to its own result.
MaxHops == 2
MaxApply == 2

\* time.Duration counts nanoseconds; Seconds() splits off the whole seconds and
\* adds the remaining nanoseconds as a fraction.
Millisecond == 1000000
Second == 1000 * Millisecond
Seconds(d) == [sec |-> d \div Second, nsec |-> d % Second]

\* The four durations of a TimingsCommon that the trace callbacks fill in.
HopTimings == [DNSLookupTime : {0, Millisecond}, TCPConnTime : {0, 2 * Millisecond},
               TLSHandshakeTime : {0, 3 * Millisecond}, TTFB : {0, Second + 500 * Millisecond}]
TimingReports == UNION {[1..n -> HopTimings] : n \in 0..MaxHops}

\* part_000:76-81, the four values appended for one hop.
HopDurationsTTFBFirst(common) ==
  <<Seconds(common.TTFB), Seconds(common.DNSLookupTime), Seconds(common.TCPConnTime),
    Seconds(common.TLSHandshakeTime)>>
HopDurations(common) ==
  <<Seconds(common.DNSLookupTime), Seconds(common.TCPConnTime),
    Seconds(common.TLSHandshakeTime), Seconds(common.TTFB)>>

\* part_000:73-84 (and main.go:118-129): the loop over CommonTimings.
RECURSIVE ExtractConnectionDurations(_)
ExtractConnectionDurations(cts) ==
  IF cts = <<>> THEN <<>>
  ELSE ExtractConnectionDurations(SubSeq(cts, 1, Len(cts) - 1)) \o HopDurations(cts[Len(cts)])

\* crypto/tls version codes, and the range of a uint16.
VersionTLS10 == 769
VersionTLS11 == 770
VersionTLS12 == 771
VersionTLS13 == 772
MaxUint16 == 65535

\* fmt's %x digits, and %04x of a uint16: at least four digits, padded with zeros.
HexDigits == <<"0", "1", "2", "3", "4", "5", "6", "7", "8", "9", "a", "b", "c", "d", "e", "f">>
RECURSIVE SprintfX(_)
SprintfX(c) == IF c < 16 THEN HexDigits[c + 1] ELSE SprintfX(c \div 16) \o HexDigits[(c % 16) + 1]
RECURSIVE PadLeft(_, _)
PadLeft(str, width) == IF Len(str) >= width THEN str ELSE PadLeft("0" \o str, width)
Sprintf04xUnpadded(c) == SprintfX(c)
Sprintf04x(c) == PadLeft(SprintfX(c), 4)

\* client.go:293-306.
getTLSVersion(version) ==
  IF version = VersionTLS10 THEN "TLS 1.0"
  ELSE IF version = VersionTLS11 THEN "TLS 1.1"
  ELSE IF version = VersionTLS12 THEN "TLS 1.2"
  ELSE IF version = VersionTLS13 THEN "TLS 1.3"
  ELSE "Unknown (0x" \o Sprintf04x(version) \o ")"

\* strings.HasPrefix.
HasPrefix(str, prefix) == Len(str) >= Len(prefix) /\ SubSeq(str, 1, Len(prefix)) = prefix

\* client.go:22-27 (and main.go:161-166).
AddDefaultProtocol(str) ==
  IF ~HasPrefix(str, "http://") /\ ~HasPrefix(str, "https://") THEN "https://" \o str ELSE str

\* The strings a user passes as the target URL.
URLInputs == {"", "x.io", "x.io/p", "http://x.io", "https://x.io", "https://", "http:/x.io",
              "httpx.io", "//x.io", "HTTP://x.io", "Https://x.io", "ftp://x.io"}

PureFns == {"ExtractConnectionDurations", "getTLSVersion", "AddDefaultProtocol"}
ArgsOf(f) ==
  IF f = "ExtractConnectionDurations" THEN TimingReports
  ELSE IF f = "getTLSVersion" THEN 0..MaxUint16
  ELSE URLInputs

\* A helper is about to be called with an argument.
InitPure ==
  /\ fn \in PureFns
  /\ arg \in ArgsOf(fn)
  /\ results = <<>>

\* No helper is called while the engine or the collector runs.
PureIdle ==
  /\ fn = "none"
  /\ arg = 0
  /\ results = <<>>

CallExtractConnectionDurations ==
  /\ fn = "ExtractConnectionDurations"
  /\ results = <<>>
  /\ results' = <<ExtractConnectionDurations(arg)>>
  /\ UNCHANGED <<fn, arg>>
  /\ UNCHANGED <<engineVars, sizeVars, traceVars, mainVars>>

CallGetTLSVersion ==
  /\ fn = "getTLSVersion"
  /\ results = <<>>
  /\ results' = <<getTLSVersion(arg)>>
  /\ UNCHANGED <<fn, arg>>
  /\ UNCHANGED <<engineVars, sizeVars, traceVars, mainVars>>

\* AddDefaultProtocol on the input, then on its own result.
CallAddDefaultProtocol ==
  /\ fn = "AddDefaultProtocol"
  /\ Len(results) < MaxApply
  /\ results' = Append(results, AddDefaultProtocol(IF results = <<>> THEN arg ELSE results[Len(results)]))
  /\ UNCHANGED <<fn, arg>>
  /\ UNCHANGED <<engineVars, sizeVars, traceVars, mainVars>>

NextPure ==
  \/ CallExtractConnectionDurations
  \/ CallGetTLSVersion
  \/ CallAddDefaultProtocol

InitFunctions == InitPure /\ EngineIdle /\ SizeIdle /\ TraceIdle /\ MainIdle

SpecPure == InitFunctions /\ [][NextPure]_vars

NextSize ==
  \/ SRequestOK
  \/ SRequestFail
  \/ SReadBodyOK
  \/ SReadBodyFail
  \/ SAddPage
  \/ SParseOK
  \/ SParseFail
  \/ SMake
  \/ SMakePanics
  \/ SLoopNext
  \/ SLoopEnd
  \/ SAcquireSpawn
  \/ SWait
  \/ SFinish
  \/ GFetch
  \/ GSendErr
  \/ GLock
  \/ GRead
  \/ GWrite
  \/ GUnlock
  \/ GRelease
  \/ GDone

InitCollector == InitSize /\ EngineIdle /\ PureIdle /\ TraceIdle /\ MainIdle

SpecSize == InitCollector /\ [][NextSize]_vars

Init == InitEngine /\ SizeIdle /\ PureIdle /\ TraceIdle /\ MainIdle

Next ==
  \/ Call
  \/ Enter
  \/ NewRequestOK
  \/ NewRequestFail
  \/ DoFail
  \/ DoOK
  \/ DrainOK
  \/ DrainFail
  \/ Classify
  \/ LateCallback
  \/ Store
  \/ Redirect
  \/ Return

Spec == Init /\ [][Next]_vars

(***************************************************************************)
(* createHTTPTrace, client.go:181-290, and the frame that uses its record, *)
(* client.go:97-146.                                                       *)
(***************************************************************************)
\* strings.Contains(addr, ":"), strings.Split(addr, ":")[0] and net.Addr.String().
Contains(addr, sep) == \E k \in 1..Len(addr) : addr[k] = sep
RECURSIVE Join(_)
Join(tokens) == IF tokens = <<>> THEN "" ELSE Head(tokens) \o Join(Tail(tokens))
FirstPart(addr, sep) ==
  LET k == CHOOSE k \in 1..Len(addr) : addr[k] = sep /\ \A j \in 1..(k - 1) : addr[j] # sep
  IN Join(SubSeq(addr, 1, k - 1))

\* client.go:309-327.
CipherNames ==
  (49199 :> "ECDHE-RSA-AES128-GCM-SHA256") @@ (49200 :> "ECDHE-RSA-AES256-GCM-SHA384") @@
  (49195 :> "ECDHE-ECDSA-AES128-GCM-SHA256") @@ (49196 :> "ECDHE-ECDSA-AES256-GCM-SHA384") @@
  (156 :> "RSA-AES128-GCM-SHA256") @@ (157 :> "RSA-AES256-GCM-SHA384") @@
  (4865 :> "TLS13-AES-128-GCM-SHA256") @@ (4866 :> "TLS13-AES-256-GCM-SHA384") @@
  (4867 :> "TLS13-CHACHA20-POLY1305-SHA256")
getTLSCipherSuite(cipher) ==
  IF cipher \in DOMAIN CipherNames THEN CipherNames[cipher]
  ELSE "Unknown (0x" \o Sprintf04x(cipher) \o ")"

\* What the transport passes to the callbacks: the dialled address (host:port, or a
\* name without a port), the state of a handshake (TLS 1.3, a resumed TLS 1.2
\* session, or the zero state of a failed one), the connection handed to the request.
TLSStates == {[Version |-> VersionTLS13, CipherSuite |-> 4865, DidResume |-> FALSE],
              [Version |-> VersionTLS12, CipherSuite |-> 49199, DidResume |-> TRUE],
              NoTLSState}
TheConn == [LocalAddr |-> <<"192.168.0.2", ":", "50000">>, RemoteAddr |-> <<"10.0.0.1", ":", "443">>]
TraceEvents ==
  {[NoEvent EXCEPT !.name = n] : n \in {"DNSStart", "DNSDone", "TLSHandshakeStart",
                                        "GotFirstResponseByte"}}
  \cup {[NoEvent EXCEPT !.name = "ConnectStart", !.addr = a] : a \in DialAddrs}
  \cup {[NoEvent EXCEPT !.name = "ConnectDone", !.addr = a, !.err = e] :
          a \in DialAddrs, e \in BOOLEAN}
  \cup {[NoEvent EXCEPT !.name = "TLSHandshakeDone", !.state = st] : st \in TLSStates}
  \cup {[NoEvent EXCEPT !.name = "GotConn", !.Reused = FALSE],
        [NoEvent EXCEPT !.name = "GotConn", !.Reused = FALSE, !.Conn = TheConn],
        [NoEvent EXCEPT !.name = "GotConn", !.Reused = TRUE, !.Conn = TheConn]}

\* Lines 98-105: the record is zero, the trace is attached, client.Do is running.
InitTrace ==
  /\ traced = ZeroTimingsCommon
  /\ waitForServerStart = 0
  /\ mu = ""
  /\ cb = NoCallback
  /\ clock = 0
  /\ observed = [n \in EventNames |-> 0]
  /\ dialStarted = [a \in DialAddrs |-> 0]
  /\ tpc = "do"
  /\ appended = <<>>

\* mu.Lock() goes through while no callback holds the mutex.
MuFree(holder) == holder = ""

\* The transport calls a callback, at any time in and after client.Do; the callback
\* takes the mutex (the first statement of every handler).  Events come one after
\* the other, each at a later time than the one before.
Deliver ==
  /\ tpc # "off"
  /\ cb = NoCallback
  /\ clock < MaxEvents
  /\ MuFree(mu)
  /\ \E e \in TraceEvents :
       /\ cb' = [ev |-> e, section |-> 1]
       /\ mu' = e.name
       /\ observed' = [observed EXCEPT ![e.name] = clock + 1]
       /\ dialStarted' = IF e.name = "ConnectStart"
                         THEN [dialStarted EXCEPT ![e.addr] = clock + 1]
                         ELSE dialStarted
  /\ clock' = clock + 1
  /\ UNCHANGED <<traced, waitForServerStart, tpc, appended>>
  /\ UNCHANGED <<engineVars, sizeVars, pureVars, mainVars>>

\* Lines 187-191.
DNSStart ==
  /\ cb.ev.name = "DNSStart"
  /\ traced' = [traced EXCEPT !.DNSLookupStart = clock]
  /\ mu' = ""
  /\ cb' = NoCallback
  /\ UNCHANGED <<waitForServerStart, clock, observed, dialStarted, tpc,
                 appended>>
  /\ UNCHANGED <<engineVars, sizeVars, pureVars, mainVars>>

\* Lines 192-198.
DNSDone ==
  /\ cb.ev.name = "DNSDone"
  /\ traced' = IF traced.DNSLookupStart # 0
               THEN [traced EXCEPT !.DNSLookupTime = clock - traced.DNSLookupStart]
               ELSE traced
  /\ mu' = ""
  /\ cb' = NoCallback
  /\ UNCHANGED <<waitForServerStart, clock, observed, dialStarted, tpc,
                 appended>>
  /\ UNCHANGED <<engineVars, sizeVars, pureVars, mainVars>>

\* Lines 201-205.
ConnectStart ==
  /\ cb.ev.name = "ConnectStart"
  /\ traced' = [traced EXCEPT !.TCPConnectStart = clock]
  /\ mu' = ""
  /\ cb' = NoCallback
  /\ UNCHANGED <<waitForServerStart, clock, observed, dialStarted, tpc,
                 appended>>
  /\ UNCHANGED <<engineVars, sizeVars, pureVars, mainVars>>

\* Lines 206-221.
ConnectDone ==
  /\ cb.ev.name = "ConnectDone"
  /\ traced' = IF ~cb.ev.err /\ traced.TCPConnectStart # 0
               THEN [traced EXCEPT !.TCPConnTime = clock - traced.TCPConnectStart,
                                   !.RemoteAddr = IF Contains(cb.ev.addr, ":")
                                                  THEN FirstPart(cb.ev.addr, ":") ELSE @]
               ELSE traced
  /\ mu' = ""
  /\ cb' = NoCallback
  /\ UNCHANGED <<waitForServerStart, clock, observed, dialStarted, tpc,
                 appended>>
  /\ UNCHANGED <<engineVars, sizeVars, pureVars, mainVars>>

\* Lines 224-228.
TLSHandshakeStart ==
  /\ cb.ev.name = "TLSHandshakeStart"
  /\ traced' = [traced EXCEPT !.TLSHandshakeStart = clock]
  /\ mu' = ""
  /\ cb' = NoCallback
  /\ UNCHANGED <<waitForServerStart, clock, observed, dialStarted, tpc,
                 appended>>
  /\ UNCHANGED <<engineVars, sizeVars, pureVars, mainVars>>

\* Lines 229-239, the first locked section of TLSHandshakeDone; the mutex is
\* released and taken again at lines 239 and 242.
TLSHandshakeDone ==
  /\ cb.ev.name = "TLSHandshakeDone"
  /\ cb.section = 1
  /\ traced' = IF traced.TLSHandshakeStart # 0
               THEN [traced EXCEPT !.TLSHandshakeTime = clock - traced.TLSHandshakeStart,
                                   !.TLSVersion = getTLSVersion(cb.ev.state.Version),
                                   !.TLSCipherSuite = getTLSCipherSuite(cb.ev.state.CipherSuite),
                                   !.TLSResumption = cb.ev.state.DidResume]
               ELSE traced
  /\ cb' = [cb EXCEPT !.section = 2]
  /\ UNCHANGED <<waitForServerStart, mu, clock, observed, dialStarted, tpc,
                 appended>>
  /\ UNCHANGED <<engineVars, sizeVars, pureVars, mainVars>>

\* Lines 241-244, the second locked section of TLSHandshakeDone.
TLSHandshakeDoneMark ==
  /\ cb.ev.name = "TLSHandshakeDone"
  /\ cb.section = 2
  /\ waitForServerStart' = clock
  /\ mu' = ""
  /\ cb' = NoCallback
  /\ UNCHANGED <<traced, clock, observed, dialStarted, tpc,
                 appended>>
  /\ UNCHANGED <<engineVars, sizeVars, pureVars, mainVars>>

\* Lines 251-259.
GotConn ==
  /\ cb.ev.name = "GotConn"
  /\ traced' = IF cb.ev.Conn # NoConn
               THEN [traced EXCEPT !.ConnectionReused = cb.ev.Reused,
                                   !.LocalAddr = Join(cb.ev.Conn.LocalAddr),
                                   !.RemoteAddr = Join(cb.ev.Conn.RemoteAddr)]
               ELSE [traced EXCEPT !.ConnectionReused = cb.ev.Reused]
  /\ mu' = ""
  /\ cb' = NoCallback
  /\ UNCHANGED <<waitForServerStart, clock, observed, dialStarted, tpc,
                 appended>>
  /\ UNCHANGED <<engineVars, sizeVars, pureVars, mainVars>>

\* Lines 283-286: TTFB is counted from the connect start, when there was one.
FirstByteTTFBUnguarded(rec, t) == t - rec.TCPConnectStart
FirstByteTTFB(rec, t) == IF rec.TCPConnectStart # 0 THEN t - rec.TCPConnectStart ELSE rec.TTFB

\* Lines 277-288.
GotFirstResponseByte ==
  /\ cb.ev.name = "GotFirstResponseByte"
  /\ traced' = [traced EXCEPT !.FirstByteTime = clock,
                              !.WaitingForServerTime = IF waitForServerStart # 0
                                                       THEN clock - waitForServerStart ELSE @,
                              !.TTFB = FirstByteTTFB(traced, clock)]
  /\ mu' = ""
  /\ cb' = NoCallback
  /\ UNCHANGED <<waitForServerStart, clock, observed, dialStarted, tpc,
                 appended>>
  /\ UNCHANGED <<engineVars, sizeVars, pureVars, mainVars>>

\* Lines 106-111: client.Do returns a response.
TraceDoReturns ==
  /\ tpc = "do"
  /\ tpc' = "append"
  /\ UNCHANGED <<traced, waitForServerStart, mu, cb, clock, observed, dialStarted,
                 appended>>
  /\ UNCHANGED <<engineVars, sizeVars, pureVars, mainVars>>

\* The fields of TimingsCommon up to TLSResumption, the ones a struct copy reads first.
FirstFields == {"DNSLookupStart", "DNSLookupTime", "TCPConnectStart", "TCPConnTime",
                "TLSHandshakeStart", "TLSHandshakeTime", "TLSVersion", "TLSCipherSuite",
                "TLSResumption"}

\* Line 115: append(..., times) copies the struct, without the mutex and not in one
\* step; here the copy has read the first fields.
TraceAppendBegin ==
  /\ tpc = "append"
  /\ appended' = <<[f \in DOMAIN ZeroTimingsCommon |->
                      IF f \in FirstFields THEN traced[f] ELSE ZeroTimingsCommon[f]]>>
  /\ tpc' = "appending"
  /\ UNCHANGED <<traced, waitForServerStart, mu, cb, clock, observed, dialStarted>>
  /\ UNCHANGED <<engineVars, sizeVars, pureVars, mainVars>>

\* Line 115: the copy reads the remaining fields.
TraceAppendEnd ==
  /\ tpc = "appending"
  /\ appended' = <<[f \in DOMAIN ZeroTimingsCommon |->
                      IF f \in FirstFields THEN appended[1][f] ELSE traced[f]]>>
  /\ tpc' = "classify"
  /\ UNCHANGED <<traced, waitForServerStart, mu, cb, clock, observed, dialStarted>>
  /\ UNCHANGED <<engineVars, sizeVars, pureVars, mainVars>>

\* Lines 130-146: the frame writes HTTPVersion and Protocol into times, without the
\* mutex; the response is HTTP/1.1 over TLS or HTTP/2.
TraceClassify ==
  /\ tpc = "classify"
  /\ \E major \in {1, 2} :
       traced' = [traced EXCEPT !.HTTPVersion = ProtoString(major),
                                !.Protocol = ProtocolLabel(major, TRUE)]
  /\ tpc' = "classified"
  /\ UNCHANGED <<waitForServerStart, mu, cb, clock, observed, dialStarted,
                 appended>>
  /\ UNCHANGED <<engineVars, sizeVars, pureVars, mainVars>>

NextTrace ==
  \/ Deliver
  \/ DNSStart
  \/ DNSDone
  \/ ConnectStart
  \/ ConnectDone
  \/ TLSHandshakeStart
  \/ TLSHandshakeDone
  \/ TLSHandshakeDoneMark
  \/ GotConn
  \/ GotFirstResponseByte
  \/ TraceDoReturns
  \/ TraceAppendBegin
  \/ TraceAppendEnd
  \/ TraceClassify

InitTracing == InitTrace /\ EngineIdle /\ SizeIdle /\ PureIdle /\ MainIdle

SpecTrace == InitTracing /\ [][NextTrace]_vars

(***************************************************************************)
(* The command-line flow of src/main.go: main (44-116),                    *)
(* performGetRequest (178-214), createHTTPTrace (234-277).                 *)
(***************************************************************************)
\* What a server answers: a final status, a redirect with a Location that resolves,
\* a redirect without one.
MainResponses == {"200", "302 located", "302 no location"}

\* main.go:60-72: the flags are parsed, -size and -v are not given, the client is made.
InitMainFlow ==
  /\ mpc = "newreq"
  /\ headersArg \in BOOLEAN
  /\ mdepth = 0
  /\ gotByte = FALSE
  /\ mresp = "none"
  /\ CommonTimmings = <<>>
  /\ output = <<>>

\* main.go:179-183: http.NewRequest fails; the error is printed and the function
\* returns, with every frame of the recursion below it (line 210 is its last statement).
MainNewRequestFail ==
  /\ mpc = "newreq"
  /\ output' = Append(output, "Error creating request:")
  /\ mpc' = "connection"
  /\ UNCHANGED <<headersArg, mdepth, gotByte, mresp, CommonTimmings>>
  /\ UNCHANGED <<engineVars, sizeVars, pureVars, traceVars>>

\* main.go:179-197: the request is created, the trace attached, client.Do called.
MainNewRequestOK ==
  /\ mpc = "newreq"
  /\ output' = Append(output, "Requesting URL:")
  /\ gotByte' = FALSE
  /\ mpc' = "do"
  /\ UNCHANGED <<headersArg, mdepth, mresp, CommonTimmings>>
  /\ UNCHANGED <<engineVars, sizeVars, pureVars, traceVars>>

\* main.go:268-275: GotFirstResponseByte sets TTFB = time.Since(time.Now()) and
\* appends the trace's record to timeStats.CommonTimmings.
MainGotFirstResponseByte ==
  /\ mpc = "do"
  /\ ~gotByte
  /\ output' = Append(output, "Received first response byte.")
  /\ CommonTimmings' = Append(CommonTimmings, [TTFB |-> 0, hop |-> mdepth])
  /\ gotByte' = TRUE
  /\ UNCHANGED <<mpc, headersArg, mdepth, mresp>>
  /\ UNCHANGED <<engineVars, sizeVars, pureVars, traceVars>>

\* main.go:197-203: client.Do fails, before or after the first response byte.
MainDoFail ==
  /\ mpc = "do"
  /\ output' = Append(output, "Error sending request:")
  /\ mpc' = "connection"
  /\ UNCHANGED <<headersArg, mdepth, gotByte, mresp, CommonTimmings>>
  /\ UNCHANGED <<engineVars, sizeVars, pureVars, traceVars>>

\* main.go:197-204: client.Do returns a response; its first byte has been received.
MainDoOK ==
  /\ mpc = "do"
  /\ gotByte
  /\ mresp' \in MainResponses
  /\ mpc' = "response"
  /\ UNCHANGED <<headersArg, mdepth, gotByte, CommonTimmings, output>>
  /\ UNCHANGED <<engineVars, sizeVars, pureVars, traceVars>>

\* main.go:206-214: a 3xx without a usable Location prints an error and returns; one
\* with a Location recurses; anything else goes to printResponse (278-304).
MainRespond ==
  /\ mpc = "response"
  /\ \/ /\ mresp = "302 no location"
        /\ output' = Append(output, "Error reading redirect location:")
        /\ mpc' = "connection"
        /\ UNCHANGED mdepth
     \/ /\ mresp = "302 located"
        /\ mdepth < MaxRedirects
        /\ output' = Append(output, "Redirecting to:")
        /\ mdepth' = mdepth + 1
        /\ mpc' = "newreq"
     \/ /\ mresp = "200"
        /\ output' = output \o <<"Response status:">> \o
                       (IF headersArg THEN <<"Response headers:">> ELSE <<>>)
        /\ mpc' = "connection"
        /\ UNCHANGED mdepth
  /\ mresp' = "none"
  /\ UNCHANGED <<headersArg, gotByte, CommonTimmings>>
  /\ UNCHANGED <<engineVars, sizeVars, pureVars, traceVars>>

\* main.go:76-91: "Connection" is printed whatever performGetRequest did; with more
\* than one hop each hop's four durations are printed, otherwise the else branch runs.
MainConnection ==
  /\ mpc = "connection"
  /\ IF Len(CommonTimmings) > 1
     THEN /\ output' = Append(output, "Connection") \o
                         [k \in 1..Len(CommonTimmings) |-> "DNS lookup ... Time To First Byte"]
          /\ mpc' = "request"
     ELSE /\ output' = Append(output, "Connection")
          /\ mpc' = "plot"
  /\ UNCHANGED <<headersArg, mdepth, gotByte, mresp, CommonTimmings>>
  /\ UNCHANGED <<engineVars, sizeVars, pureVars, traceVars>>

\* main.go:92: asciigraph.Plot(timeStats.ExtractConnectionDurations()).  The library
\* is not part of the sources: on an empty series it returns a graph or panics.
MainPlot ==
  /\ mpc = "plot"
  /\ \/ mpc' = "first"
     \/ CommonTimmings = <<>> /\ mpc' = "panic in Plot"
  /\ UNCHANGED <<headersArg, mdepth, gotByte, mresp, CommonTimmings, output>>
  /\ UNCHANGED <<engineVars, sizeVars, pureVars, traceVars>>

\* main.go:94-100: timeStats.CommonTimmings[0] is read four times and the graph
\* printed; indexing an empty slice panics (index out of range).
MainReadFirst ==
  /\ mpc = "first"
  /\ IF CommonTimmings = <<>>
     THEN /\ mpc' = "panic index out of range"
          /\ UNCHANGED output
     ELSE /\ output' = Append(output, "DNS lookup ... TTFB")
          /\ mpc' = "request"
  /\ UNCHANGED <<headersArg, mdepth, gotByte, mresp, CommonTimmings>>
  /\ UNCHANGED <<engineVars, sizeVars, pureVars, traceVars>>

\* main.go:103-115: the request timings and their graph are printed; main returns.
MainRequestTimings ==
  /\ mpc = "request"
  /\ output' = output \o <<"Request", "Total request">>
  /\ mpc' = "done"
  /\ UNCHANGED <<headersArg, mdepth, gotByte, mresp, CommonTimmings>>
  /\ UNCHANGED <<engineVars, sizeVars, pureVars, traceVars>>

NextMain ==
  \/ MainNewRequestFail
  \/ MainNewRequestOK
  \/ MainGotFirstResponseByte
  \/ MainDoFail
  \/ MainDoOK
  \/ MainRespond
  \/ MainConnection
  \/ MainPlot
  \/ MainReadFirst
  \/ MainRequestTimings

InitMain == InitMainFlow /\ EngineIdle /\ SizeIdle /\ PureIdle /\ TraceIdle

SpecMain == InitMain /\ [][NextMain]_vars

(***************************************************************************)
(* Properties of the request engine, checked under Spec.                   *)
(***************************************************************************)
\* The URLs of the hops recorded so far.
AttemptedURLs == {responseInfos[i].URL : i \in 1..Len(responseInfos)}

LastResponse == responseInfos[Len(responseInfos)].Response

\* The four top-level durations of the Timing Report.
TopLevelDurations == <<timeStats.RequestSendingTime, timeStats.ServerProcessingTime,
                       timeStats.TotalRequestTime, timeStats.ContentTransferTime>>

\* C1: within one call no URL string is requested twice, and every URL that was
\* requested is in the visited set.
C1_NoURLRequestedTwice ==
  /\ Cardinality({requested[i] : i \in 1..Len(requested)}) = Len(requested)
  /\ \A i \in 1..Len(requested) : requested[i] \in visited

\* C1 witness: a redirect back to a requested URL was rejected after several requests.
C1_Witness ==
  /\ pc = "returned"
  /\ retErr.kind = "redirect loop detected"
  /\ Len(requested) >= 3
  /\ retErr.url = requested[Len(requested)]

\* C2: when the last recorded response redirects to a URL already attempted in this
\* call, the call fails with the redirect-loop error carrying that URL, whatever the depth.
C2_RepeatedURLFailsWithLoop ==
  (/\ pc \in {"return", "returned"}
   /\ responseInfos # <<>>
   /\ IsRedirect(LastResponse.StatusCode)
   /\ LastResponse.Location.kind = "ref"
   /\ LocationString(LastResponse.Location.id) \in AttemptedURLs)
  => retErr = ErrRedirectLoop(LocationString(LastResponse.Location.id))

\* C2 witness: the repeated URL arrives at a depth beyond the maximum and is still
\* reported as a loop.
C2_Witness ==
  /\ pc = "returned"
  /\ depth > maxDepth
  /\ retErr = ErrRedirectLoop(urlArg)
  /\ urlArg \in AttemptedURLs

\* C3 as stated: the limit error comes at hop 11, after exactly 10 requests were issued.
C3_LimitAtHop11 ==
  /\ Len(requested) <= maxDepth
  /\ (retErr.kind = "max redirect depth reached" => Len(requested) = maxDepth)

\* C3 amended: the limit error comes at hop 12 only (depth 11), after hops 1..11
\* (depths 0..10) were all issued; never at hop 11 or earlier.
C3_LimitAtHop12 ==
  /\ Len(requested) <= maxDepth + 1
  /\ (retErr.kind = "max redirect depth reached" =>
        /\ depth = maxDepth + 1
        /\ Len(requested) = maxDepth + 1
        /\ retErr = ErrMaxDepth(maxDepth))

\* C3 witness: a chain of distinct URLs ran into the limit.
C3_Witness ==
  /\ pc = "returned"
  /\ retErr.kind = "max redirect depth reached"
  /\ Cardinality({requested[i] : i \in 1..Len(requested)}) = maxDepth + 1

\* C4: a call returns an error only when a request could not be created, sent or read,
\* a 3xx carried no usable Location, a URL repeated, or more than 10 redirects were
\* followed; otherwise it returns nil after a non-3xx response, and CommonTimings holds
\* one entry per request, in hop order.
C4_SuccessOneEntryPerHop ==
  pc = "returned" =>
    \/ /\ retErr = NoErr
       /\ responseInfos # <<>>
       /\ ~IsRedirect(LastResponse.StatusCode)
       /\ Len(requested) <= maxDepth + 1
       /\ Len(timeStats.CommonTimings) = Len(requested)
       /\ \A i \in 1..Len(requested) : timeStats.CommonTimings[i].RemoteAddr = AddrOf(requested[i])
    \/ retErr.kind \in {"error creating request", "error sending request",
                        "error reading response body"}
    \/ /\ retErr.kind = "error reading redirect location"
       /\ IsRedirect(LastResponse.StatusCode)
       /\ LastResponse.Location.kind # "ref"
    \/ /\ retErr.kind = "redirect loop detected"
       /\ retErr.url \in AttemptedURLs
    \/ /\ retErr.kind = "max redirect depth reached"
       /\ Len(responseInfos) > maxDepth

\* C4 witness: success after exactly 10 redirects, 11 entries.
C4_Witness ==
  /\ pc = "returned"
  /\ retErr = NoErr
  /\ Len(requested) = maxDepth + 1
  /\ Len(timeStats.CommonTimings) = maxDepth + 1

C6_PolicyRestoredOnEveryReturn ==
  /\ pc \in {"idle", "returned"} => checkRedirect = callerPolicy
  /\ pc \notin {"idle", "returned"} => checkRedirect = NoFollow

\* C6 witness: a failed call has returned to a caller that had its own policy.
C6_Witness ==
  /\ pc = "returned"
  /\ retErr # NoErr
  /\ callerPolicy = "callerFunc"
  /\ checkRedirect = "callerFunc"

\* C7: the step in which client.Do fails returns an error wrapping the cause and
\* leaves the hop sequence, the ResponseInfo sequence and the top-level durations alone.
C7_TransportFailureCommitsNothing ==
  [][(pc = "do" /\ retErr'.kind = "error sending request") =>
       /\ timeStats' = timeStats
       /\ responseInfos' = responseInfos
       /\ retErr'.cause \in TransportCauses
       /\ pc' = "return"]_vars

\* C7 witness: the send of hop 3 failed, two hops are committed.
C7_Witness ==
  /\ pc = "returned"
  /\ retErr.kind = "error sending request"
  /\ Len(requested) = 3
  /\ Len(responseInfos) = 2
  /\ Len(timeStats.CommonTimings) = 2

\* C16: the label computed for the current hop's response is a function of its HTTP
\* major version and of whether it came over TLS: 2 gives "HTTP/2", 3 gives "HTTP/3",
\* otherwise TLS gives "HTTPS", otherwise "HTTP"; the major version is tested first.
C16_LabelFromMajorThenTLS ==
  pc \in {"store", "redirect"} =>
    /\ resp.ProtoMajor = 2 => times.Protocol = "HTTP/2"
    /\ resp.ProtoMajor = 3 => times.Protocol = "HTTP/3"
    /\ (resp.ProtoMajor \notin {2, 3} /\ resp.TLS) => times.Protocol = "HTTPS"
    /\ (resp.ProtoMajor \notin {2, 3} /\ ~resp.TLS) => times.Protocol = "HTTP"

\* C16 witness: an HTTP/2 response over TLS was labelled "HTTP/2", not "HTTPS".
C16_Witness ==
  /\ pc = "store"
  /\ resp.ProtoMajor = 2
  /\ resp.TLS
  /\ times.Protocol = "HTTP/2"

\* C18: at every return the hop sequence and the ResponseInfo sequence have the
\* same length, and entry i of both describes the same hop.
C18_SequencesParallelAtReturn ==
  pc = "returned" =>
    /\ Len(timeStats.CommonTimings) = Len(responseInfos)
    /\ \A i \in 1..Len(responseInfos) :
         timeStats.CommonTimings[i].RemoteAddr = AddrOf(responseInfos[i].URL)

\* C19: every record stored in the Timing Report carries the label and the protocol
\* string of its own hop's response.
C19_StoredRecordsClassified ==
  \A i \in 1..Len(responseInfos) :
    /\ timeStats.CommonTimings[i].Protocol =
         ProtocolLabel(responseInfos[i].Response.ProtoMajor, responseInfos[i].Response.TLS)
    /\ timeStats.CommonTimings[i].HTTPVersion = responseInfos[i].Response.Proto

\* C20: no step changes or removes a record that is in the hop sequence, whatever
\* callback fires late, and after every step the records are in the order in which
\* the hops were requested.
C20_HopSequenceAppendOnly ==
  [][/\ Len(timeStats'.CommonTimings) >= Len(timeStats.CommonTimings)
     /\ \A i \in 1..Len(timeStats.CommonTimings) :
          timeStats'.CommonTimings[i] = timeStats.CommonTimings[i]
     /\ \A i \in 1..Len(timeStats'.CommonTimings) :
          timeStats'.CommonTimings[i].RemoteAddr = AddrOf(requested'[i])]_vars

\* C20 witness: a callback of hop 2 fired after its record was appended; the frame's
\* local changed and the stored record did not.
C20_Witness ==
  /\ Len(timeStats.CommonTimings) = 2
  /\ Len(requested) = 2
  /\ pc \in {"classify", "store", "redirect"}
  /\ times.RemoteAddr = DialledHostOf(urlArg)
  /\ timeStats.CommonTimings[2].RemoteAddr = AddrOf(urlArg)

\* A status in [300,400).
StatusIs3xx(code) == code \in 300..399

\* Hop i answered with a 3xx status and a Location that resolves.
RedirectsOn(i) ==
  /\ StatusIs3xx(responseInfos[i].Response.StatusCode)
  /\ responseInfos[i].Response.Location.kind = "ref"

\* The URL string hop i redirects to.
RedirectTarget(i) == LocationString(responseInfos[i].Response.Location.id)

\* C21 as stated: when the call has returned, a recorded hop was followed by a further
\* request if and only if it answered 3xx with a resolvable Location.
C21_FurtherRequestIffRedirect ==
  pc = "returned" =>
    \A i \in 1..Len(responseInfos) : (Len(requested) > i) <=> RedirectsOn(i)

\* C21 amended: a recorded hop is followed by a further attempt, for exactly the
\* resolved Location and at depth + 1, if and only if it answered 3xx with a resolvable
\* Location; that attempt issues its request unless it is rejected as a loop, by the
\* depth limit or when the request is created.  A status outside [300,400) ends the
\* call with nil and a 3xx without a resolvable Location ends it with an error, both
\* without a further request.
C21_FurtherAttemptIffRedirect ==
  LET L == Len(responseInfos) IN
  /\ \A i \in 1..L : responseInfos[i].URL = requested[i]
  /\ \A i \in 1..(L - 1) : RedirectsOn(i) /\ requested[i + 1] = RedirectTarget(i)
  /\ (L >= 1 /\ pc \in {"enter", "newreq", "do"}) =>
       (RedirectsOn(L) /\ urlArg = RedirectTarget(L) /\ depth = L)
  /\ (L >= 1 /\ pc = "returned") =>
       /\ RedirectsOn(L) =>
            /\ urlArg = RedirectTarget(L)
            /\ depth = L
            /\ \/ Len(requested) = L + 1 /\ requested[L + 1] = RedirectTarget(L)
               \/ /\ Len(requested) = L
                  /\ retErr.kind \in {"redirect loop detected", "max redirect depth reached",
                                      "error creating request"}
       /\ ~StatusIs3xx(LastResponse.StatusCode) => (retErr = NoErr /\ Len(requested) = L)
       /\ (StatusIs3xx(LastResponse.StatusCode) /\ LastResponse.Location.kind # "ref") =>
            (retErr.kind = "error reading redirect location" /\ Len(requested) = L)
       /\ retErr = NoErr => ~StatusIs3xx(LastResponse.StatusCode)

\* C21 witness: the second hop answered 304 without a Location and the call failed.
C21_Witness ==
  /\ pc = "returned"
  /\ Len(responseInfos) = 2
  /\ Len(requested) = 2
  /\ LastResponse.StatusCode = 304
  /\ retErr.kind = "error reading redirect location"
  /\ requested[2] = RedirectTarget(1)

\* C26: once the first hop is recorded, the frozen server-processing duration leaves
\* out the time spent draining the body: together with the content-transfer duration
\* it is no more than the frozen total, and the total reaches from the hop's start to
\* the freeze.
C26_ServerProcessingExcludesDrain ==
  Len(responseInfos) >= 1 =>
    /\ timeStats.RequestSendingTime = responseInfos[1].RequestSendingTime
    /\ timeStats.TotalRequestTime <= now - responseInfos[1].StartTime
    /\ timeStats.ServerProcessingTime + timeStats.ContentTransferTime <= timeStats.TotalRequestTime

\* How far the call has come: the attempts entered, the position inside the current
\* attempt, and whether the attempt's late callback has fired.
PcRank ==
  IF pc = "idle" THEN 0 ELSE IF pc = "enter" THEN 1 ELSE IF pc = "newreq" THEN 2
  ELSE IF pc = "do" THEN 3 ELSE IF pc = "append" THEN 4 ELSE IF pc = "classify" THEN 5
  ELSE IF pc = "store" THEN 6 ELSE 7
LateFired ==
  IF pc \in {"classify", "store", "redirect"} /\ times.RemoteAddr = DialledHostOf(urlArg)
  THEN 1 ELSE 0
CallRank ==
  IF pc = "returned" THEN 2 * (8 * (maxDepth + 2)) + 1
  ELSE IF pc = "return" THEN 2 * (8 * (maxDepth + 2))
  ELSE 2 * (8 * depth + PcRank) + LateFired

\* C30: the call is never stuck before it has returned and every step brings it
\* nearer to the return, so it terminates; it issues at most 11 requests, at depths
\* 0 to 10; the depth of an attempt is one more than the depth of the attempt that
\* redirected to it and equals the number of hops recorded before it.
C30_TerminatesWithinElevenRequests ==
  /\ [](/\ pc = "returned" \/ ENABLED Next
        /\ Len(requested) <= 11
        /\ pc \in {"enter", "newreq", "do"} => depth = Len(responseInfos)
        /\ pc \in {"append", "classify", "store", "redirect"} =>
             (depth = Len(requested) - 1 /\ depth <= 10))
  /\ [][/\ CallRank' > CallRank
        /\ (pc = "redirect" /\ pc' = "enter") => depth' = depth + 1]_vars

\* C30 witness: the eleventh request, at depth 10, was answered and the call returned.
C30_Witness ==
  /\ pc = "returned"
  /\ Len(requested) = 11
  /\ Len(responseInfos) = 11
  /\ depth = 10

(***************************************************************************)
(* Properties of the trace callbacks, checked under SpecTrace.             *)
(***************************************************************************)
\* C22: whenever the frame is in the middle of reading the record it shares with the
\* callbacks (the copy of line 115), no callback is inside a locked section that
\* writes the record: the frame's access and the callbacks' writes exclude each other.
C22_FrameAccessExcludesCallbacks ==
  tpc = "appending" => mu = ""

\* The done-event a callback is handling has no matching start: the start timestamp
\* is unset, or it is a connect-done that carries an error.
UnmatchedDone(e) ==
  \/ e.name = "DNSDone" /\ traced.DNSLookupStart = 0
  \/ e.name = "ConnectDone" /\ (traced.TCPConnectStart = 0 \/ e.err)
  \/ e.name = "TLSHandshakeDone" /\ traced.TLSHandshakeStart = 0

\* C23: every step of a callback that handles a done-event without a matching start
\* leaves the record unchanged, and leaves unchanged the marker from which a later
\* first-response-byte event computes WaitingForServerTime.
C23_UnmatchedDoneIsNoOp ==
  [][(cb # NoCallback /\ cb' # cb /\ UnmatchedDone(cb.ev)) =>
        (traced' = traced /\ waitForServerStart' = waitForServerStart)]_vars

\* The remote addresses GotConn records: info.Conn.RemoteAddr().String().
SocketAddrs == {Join(TheConn.RemoteAddr)}

\* C24: once RemoteAddr is the socket address GotConn recorded, only another GotConn
\* changes it; no other event does, a successful connect-done delivered later
\* included.
C24_GotConnAddressKept ==
  [][(traced.RemoteAddr \in SocketAddrs /\ traced'.RemoteAddr # traced.RemoteAddr) =>
        cb.ev.name = "GotConn"]_vars

C32_ConnTimeOfSameAttempt ==
  [][(/\ cb.ev.name = "ConnectDone"
      /\ cb' = NoCallback
      /\ ~cb.ev.err
      /\ dialStarted[cb.ev.addr] # 0) =>
        traced'.TCPConnTime = clock - dialStarted[cb.ev.addr]]_vars

(***************************************************************************)
(* Properties of the command-line flow, checked under SpecMain.            *)
(***************************************************************************)
\* The positions of main from the timing output on (main.go:76-115).
TimingOutput == {"plot", "first", "request", "done", "panic in Plot", "panic index out of range"}

\* C33: when the request has ended and no per-hop timing entry was recorded, main
\* does not go on to the timing output: "Connection" is not printed, and element 0
\* of the empty CommonTimmings is never read.
C33_NoTimingOutputWithoutHop ==
  /\ CommonTimmings = <<>> => mpc \notin TimingOutput
  /\ CommonTimmings = <<>> => \A k \in 1..Len(output) : output[k] # "Connection"
  /\ mpc # "panic index out of range"

(***************************************************************************)
(* Properties of the resource-size collector, checked under SpecSize.      *)
(***************************************************************************)
\* The fetch units that were started and have not yet released the semaphore.
InFlight == {i \in DOMAIN doc : g[i] \in {"fetch", "senderr", "lock", "read", "write", "unlock",
                                          "release"}}

\* The number of Resources in a ResourceMap, and of copies of r in a bucket.
TotalInMap(m) == Len(m["text/html"]) + Len(m["text/css"])
CountIn(b, r) == Cardinality({j \in 1..Len(b) : b[j] = r})

\* The Resource a successful fetch of URL u yields.
ResourceAt(u) == [URL |-> u, Size |-> SizeOf(u), Type |-> TypeOf(u)]

\* C8: with concurrency >= 1, the fetch units started and not yet released are never
\* more than the tokens in the semaphore, which are never more than concurrency.
C8_InFlightAtMostConcurrency ==
  concurrency >= 1 =>
    /\ Cardinality(InFlight) <= sem
    /\ sem <= concurrency

\* C8 witness: the semaphore is full and the spawning loop waits with a link left.
C8_Witness ==
  /\ concurrency = 2
  /\ Cardinality(InFlight) = 2
  /\ spc = "acquire"
  /\ idx = 2
  /\ Len(doc) = 3

\* C9: with a zero or negative concurrency and at least one link in the page,
\* calculateSize does not panic and is never stuck short of returning.
C9_NonPositiveConcurrencyTerminates ==
  (concurrency <= 0 /\ Len(doc) >= 1) =>
    /\ spc # "panic"
    /\ (spc = "sdone" \/ ENABLED NextSize)

\* C10 as stated: the returned ResourceMap holds exactly n - k Resources.
C10_MapHoldsNMinusK ==
  (spc = "sdone" /\ ~sizeRet.mapIsNil) =>
    TotalInMap(sizeRet.map) = Len(doc) - Cardinality(fails)

\* C10 amended: the returned ResourceMap holds the n - k Resources of the links whose
\* fetch succeeded, each in the bucket of its type, and the page itself: n - k + 1 in all.
C10_MapHoldsNMinusKPlusPage ==
  (spc = "sdone" /\ ~sizeRet.mapIsNil) =>
    /\ TotalInMap(sizeRet.map) = Len(doc) - Cardinality(fails) + 1
    /\ \A t \in ContentTypes : \A j \in 1..Len(sizeRet.map[t]) : sizeRet.map[t][j].Type = t
    /\ \A u \in {PageURL} \cup {Resolve(PageURL, l) : l \in Links} :
         CountIn(sizeRet.map[TypeOf(u)], ResourceAt(u)) =
           Cardinality({i \in DOMAIN doc \ fails : Resolve(PageURL, doc[i]) = u})
           + (IF u = PageURL THEN 1 ELSE 0)

\* C10 witness: three links, one failed fetch, three Resources returned.
C10_Witness ==
  /\ spc = "sdone"
  /\ ~sizeRet.mapIsNil
  /\ Len(doc) = 3
  /\ Cardinality(fails) = 1
  /\ TotalInMap(sizeRet.map) = 3

\* The map calculateSize builds when the fetch units of the first k links run one
\* after the other in document order: lines 371 and 405-415 without any overlap.
RECURSIVE SequentialMap(_)
SequentialMap(k) ==
  IF k = 0
  THEN [EmptyMap EXCEPT ![PageType] = <<[URL |-> PageURL, Size |-> SizeOf(PageURL), Type |-> PageType]>>]
  ELSE LET m == SequentialMap(k - 1)
           r == FetchResource(doc[k], PageURL, k \in fails)
       IN IF r.err # NoFetchErr THEN m ELSE [m EXCEPT ![r.res.Type] = Append(@, r.res)]

\* Two buckets hold the same Resources the same number of times.
SameBag(a, b) ==
  \A r \in {a[j] : j \in 1..Len(a)} \cup {b[j] : j \in 1..Len(b)} : CountIn(a, r) = CountIn(b, r)

\* C11: for given links and fetch outcomes the returned ResourceMap is, bucket by
\* bucket and as a multiset, the map of the one-at-a-time run, whatever the
\* concurrency and the interleaving of the fetch units; with concurrency 1 it is
\* that map, order included.
C11_MapIndependentOfConcurrency ==
  (spc = "sdone" /\ ~sizeRet.mapIsNil) =>
    /\ \A t \in ContentTypes : SameBag(sizeRet.map[t], SequentialMap(Len(doc))[t])
    /\ concurrency = 1 => sizeRet.map = SequentialMap(Len(doc))

\* C11 witness: with concurrency 2 the fetch units overtook each other, and a bucket
\* came out in another order than the one-at-a-time run gives.
C11_Witness ==
  /\ spc = "sdone"
  /\ ~sizeRet.mapIsNil
  /\ concurrency = MaxConc
  /\ Len(doc) = 3
  /\ sizeRet.map # SequentialMap(Len(doc))

\* The positions of calculateSize from line 392 on: the document is read and parsed.
AfterParse == {"make", "loop", "acquire", "wait", "close"}

\* The errors PerformGetSize and calculateSize return, all from before line 392.
PreFetchErrors == {"error creating request for size calculation",
                   "error sending request for size calculation",
                   "error reading response body", "error parsing HTML"}

\* C12: with a concurrency of at least 1, once the page is read and parsed no failed
\* fetch stops the collection or turns into an error: the call is never stuck,
\* every link's fetch unit is started and finishes, every failure becomes a warning,
\* and the call returns nil with the page and exactly the successfully fetched resources.
C12_FetchFailuresNeverFatal ==
  concurrency >= 1 =>
    /\ spc \in AfterParse => (ENABLED NextSize /\ ~sizeRet.returned)
    /\ (spc = "sdone" /\ sizeRet.err \in PreFetchErrors) =>
          (sizeRet.mapIsNil /\ \A i \in DOMAIN doc : g[i] = "unborn")
    /\ (spc = "sdone" /\ sizeRet.err \notin PreFetchErrors) =>
          /\ sizeRet.err = ""
          /\ ~sizeRet.mapIsNil
          /\ \A i \in DOMAIN doc : g[i] = "exited"
          /\ Len(warnings) = Cardinality(fails)
          /\ \A i \in fails : \E j \in 1..Len(warnings) : warnings[j].url = Resolve(PageURL, doc[i])
          /\ CountIn(sizeRet.map[PageType], ResourceAt(PageURL)) = 1
          /\ \A t \in ContentTypes : \A j \in 1..Len(sizeRet.map[t]) :
                \/ sizeRet.map[t][j] = ResourceAt(PageURL)
                \/ \E i \in DOMAIN doc \ fails : sizeRet.map[t][j] = ResourceAt(Resolve(PageURL, doc[i]))
          /\ \A i \in DOMAIN doc \ fails :
                CountIn(sizeRet.map[TypeOf(Resolve(PageURL, doc[i]))], ResourceAt(Resolve(PageURL, doc[i]))) >= 1

\* C12 witness: all three fetches failed; the call returned nil and the page alone.
C12_Witness ==
  /\ spc = "sdone"
  /\ concurrency >= 1
  /\ Len(doc) = 3
  /\ fails = DOMAIN doc
  /\ sizeRet.err = ""
  /\ sizeRet.map = [EmptyMap EXCEPT ![PageType] = <<ResourceAt(PageURL)>>]
  /\ Len(warnings) = 3

\* The URLs the document refers to, each once.
DistinctReferences == {Resolve(PageURL, doc[i]) : i \in DOMAIN doc}

\* C13: the returned ResourceMap lists no Resource twice: one Resource per distinct
\* reference whose fetch succeeded, and one for the page in the bucket of its type.
C13_OneResourcePerDistinctReference ==
  (spc = "sdone" /\ ~sizeRet.mapIsNil) =>
    /\ CountIn(sizeRet.map[PageType], ResourceAt(PageURL)) = 1
    /\ \A u \in DistinctReferences : CountIn(sizeRet.map[TypeOf(u)], ResourceAt(u)) <= 1
    /\ fails = {} => TotalInMap(sizeRet.map) = Cardinality(DistinctReferences) + 1

\* The fetch units inside lines 412-414, and those that have written their Resource.
InsideInsert == {i \in DOMAIN doc : g[i] \in {"read", "write", "unlock"}}
HasInserted == {i \in DOMAIN doc \ fails : g[i] \in {"unlock", "release", "wgdone", "exited"}}

\* C27: at most one fetch unit is between reading a bucket and unlocking, and it is
\* the holder of the resource lock; the map holds, at every moment after the page
\* went in, the page and the Resource of every successful fetch unit that has
\* written, each in the bucket of its own type, so that after the wait barrier none
\* is missing.
C27_InsertsSerializedNoneLost ==
  /\ Cardinality(InsideInsert) <= 1
  /\ \A i \in InsideInsert : resourceLock = i
  /\ resourceLock # 0 => resourceLock \in InsideInsert
  /\ (spc \in AfterParse \/ (spc = "sdone" /\ ~sizeRet.mapIsNil)) =>
       \A u \in {PageURL} \cup {Resolve(PageURL, l) : l \in Links} :
         CountIn(resourceMap[TypeOf(u)], ResourceAt(u)) =
           Cardinality({i \in HasInserted : Resolve(PageURL, doc[i]) = u})
           + (IF u = PageURL THEN 1 ELSE 0)
  /\ spc \in {"close", "sdone"} => HasInserted = {i \in DOMAIN doc \ fails : g[i] # "unborn"}

\* C27 witness: a fetch unit waits for the lock while another one, with a Resource
\* for the same bucket, is about to write the bucket it has read.
C27_Witness ==
  \E i, j \in DOMAIN doc :
    /\ g[i] = "lock"
    /\ g[j] = "write"
    /\ resourceLock = j
    /\ fetched[i].res.Type = fetched[j].res.Type
    /\ fetched[i].res # fetched[j].res

\* calculateSize is past wg.Wait(), line 419.
PastBarrier == spc = "close" \/ (spc = "sdone" /\ ~sizeRet.mapIsNil)

\* C28: once calculateSize is past the wait barrier, every link's fetch unit was
\* started and has finished, whether its fetch failed or not: every semaphore slot
\* is released, the lock is free, every failure is in the error channel (or, after
\* the drain, in the warnings) and every success in the map; and no step taken
\* after the barrier is a fetch unit's or changes the map or adds an error.
C28_BarrierAfterEveryFetchUnit ==
  /\ [](PastBarrier =>
          /\ \A i \in DOMAIN doc : g[i] = "exited"
          /\ sem = 0
          /\ wg = 0
          /\ resourceLock = 0
          /\ Len(errs) + Len(warnings) = Cardinality(fails)
          /\ TotalInMap(resourceMap) = Len(doc) - Cardinality(fails) + 1)
  /\ [][PastBarrier =>
          /\ g' = g
          /\ resourceMap' = resourceMap
          /\ Len(errs') <= Len(errs)
          /\ sem' = sem]_vars

\* C28 witness: the barrier is passed with three fetch units finished, one of them
\* after a failed fetch, under a concurrency of 2.
C28_Witness ==
  /\ spc = "close"
  /\ concurrency = 2
  /\ Len(doc) = 3
  /\ Cardinality(fails) = 1
  /\ Len(errs) = 1
  /\ \A i \in DOMAIN doc : g[i] = "exited"

\* How far a fetch unit and the spawning loop have come.
GRankOf == [unborn |-> 0, fetch |-> 1, senderr |-> 2, lock |-> 2, read |-> 3, write |-> 4,
            unlock |-> 5, release |-> 6, wgdone |-> 7, exited |-> 8]
SRank ==
  IF spc = "request" THEN 0 ELSE IF spc = "read" THEN 1 ELSE IF spc = "page" THEN 2
  ELSE IF spc = "parse" THEN 3 ELSE IF spc = "make" THEN 4
  ELSE IF spc = "loop" THEN 5 + 2 * idx ELSE IF spc = "acquire" THEN 6 + 2 * idx
  ELSE IF spc = "wait" THEN 6 + 2 * Len(doc) ELSE IF spc = "close" THEN 7 + 2 * Len(doc)
  ELSE 8 + 2 * Len(doc)

\* C29: with concurrency >= 1 the call is never stuck before it has returned and
\* every step moves the spawning loop or a fetch unit forward and none backward, so
\* that the call terminates once every fetch returns; a fetch unit that has an error
\* to send finds room in the error buffer, a unit that releases finds its token, and
\* while the spawning loop waits on a full semaphore a fetch unit that will release
\* a slot can take a step.
C29_CollectorTerminates ==
  /\ [](concurrency >= 1 =>
          /\ spc = "sdone" \/ ENABLED NextSize
          /\ \A i \in DOMAIN doc : g[i] = "senderr" => Len(errs) < Len(doc)
          /\ \A i \in DOMAIN doc : g[i] = "release" => sem > 0
          /\ (spc = "acquire" /\ sem = concurrency) =>
                \E i \in InFlight : g[i] # "lock" \/ resourceLock = 0)
  /\ [][concurrency >= 1 =>
          /\ g' # g \/ spc' # spc \/ idx' # idx
          /\ \A i \in DOMAIN doc : g'[i] = g[i] \/ GRankOf[g'[i]] > GRankOf[g[i]]
          /\ (spc' = spc /\ idx' = idx) \/ SRank' > SRank]_vars

\* C29 witness: three links under concurrency 1, every fetch failed; the spawning
\* loop waited for each release, the error buffer took all three errors, and the
\* call returned.
C29_Witness ==
  /\ spc = "sdone"
  /\ sizeRet.returned
  /\ ~sizeRet.mapIsNil
  /\ concurrency = 1
  /\ Len(doc) = MaxRes
  /\ fails = DOMAIN doc
  /\ Len(warnings) = Len(doc)

\* The fetch units whose outcome is delivered: the error sent or the Resource written.
Delivered == {i \in DOMAIN doc : g[i] \in {"unlock", "release", "wgdone", "exited"}}

\* C31: fetchResource hands a fetch unit a Resource or an error, never both and never
\* neither; from the moment the page is in the map, the Resources in the map and the
\* errors sent (or printed as warnings) are together one for the page and one for
\* every fetch unit that has delivered its outcome; when calculateSize returns the
\* map, Resources plus warnings are n + 1.
C31_OneOutcomePerFetchUnit ==
  /\ \A i \in DOMAIN doc :
       g[i] \notin {"unborn", "fetch"} =>
         /\ (fetched[i].res = NoResource) # (fetched[i].err = NoFetchErr)
         /\ (fetched[i].err # NoFetchErr) = (i \in fails)
  /\ spc \in AfterParse =>
       TotalInMap(resourceMap) + Len(errs) + Len(warnings) = Cardinality(Delivered) + 1
  /\ (spc = "sdone" /\ ~sizeRet.mapIsNil) =>
       /\ TotalInMap(sizeRet.map) + Len(warnings) = Len(doc) + 1
       /\ \A i \in DOMAIN doc :
            LET u == Resolve(PageURL, doc[i]) IN
              IF i \in fails
              THEN \E j \in 1..Len(warnings) : warnings[j].url = u
              ELSE CountIn(sizeRet.map[TypeOf(u)], ResourceAt(u)) >= 1

\* C31 witness: three links, two failed fetches; the call returned the page and one
\* Resource and printed two warnings.
C31_Witness ==
  /\ spc = "sdone"
  /\ ~sizeRet.mapIsNil
  /\ Len(doc) = 3
  /\ Cardinality(fails) = 2
  /\ TotalInMap(sizeRet.map) = 2
  /\ Len(warnings) = 2

(***************************************************************************)
(* Properties of the helper functions, checked under SpecPure.             *)
(***************************************************************************)
\* C14: on a report of N hops ExtractConnectionDurations returns 4*N values; values
\* 4i..4i+3 (counted from 0) are hop i's DNS, TCP, TLS and TTFB durations in seconds,
\* in that order; for N = 0 the result is empty.
C14_FourValuesPerHopInOrder ==
  (fn = "ExtractConnectionDurations" /\ results # <<>>) =>
    LET out == results[1]
        N == Len(arg)
    IN /\ Len(out) = 4 * N
       /\ N = 0 => out = <<>>
       /\ \A i \in 0..(N - 1) :
            /\ out[4 * i + 1] = Seconds(arg[i + 1].DNSLookupTime)
            /\ out[4 * i + 2] = Seconds(arg[i + 1].TCPConnTime)
            /\ out[4 * i + 3] = Seconds(arg[i + 1].TLSHandshakeTime)
            /\ out[4 * i + 4] = Seconds(arg[i + 1].TTFB)

\* C14 witness: two hops, the second with four different durations, eight values out.
C14_Witness ==
  /\ fn = "ExtractConnectionDurations"
  /\ Len(arg) = 2
  /\ arg[2] = [DNSLookupTime |-> Millisecond, TCPConnTime |-> 2 * Millisecond,
               TLSHandshakeTime |-> 3 * Millisecond, TTFB |-> Second + 500 * Millisecond]
  /\ results # <<>>
  /\ Len(results[1]) = 8
  /\ results[1][8] = [sec |-> 1, nsec |-> 500 * Millisecond]

\* The value of a string of lower-case hexadecimal digits; -1 when a character is
\* none of 0-9a-f.
HexDigitValue(ch) ==
  IF \E k \in 1..16 : HexDigits[k] = ch THEN (CHOOSE k \in 1..16 : HexDigits[k] = ch) - 1 ELSE -1
RECURSIVE HexValue(_)
HexValue(str) ==
  IF str = "" THEN 0
  ELSE LET v == HexDigitValue(SubSeq(str, Len(str), Len(str)))
           rest == HexValue(SubSeq(str, 1, Len(str) - 1))
       IN IF v < 0 \/ rest < 0 THEN -1 ELSE 16 * rest + v

\* C15: getTLSVersion gives "TLS 1.0".."TLS 1.3" for 0x0301..0x0304 and, for every
\* other 16-bit code c, "Unknown (0x" followed by exactly four lower-case hex digits
\* whose value is c and ")"; 0x0304 gives "TLS 1.3" and 0x9999 "Unknown (0x9999)".
C15_TLSVersionNames ==
  (fn = "getTLSVersion" /\ results # <<>>) =>
    LET name == results[1] IN
    /\ arg = 769 => name = "TLS 1.0"
    /\ arg = 770 => name = "TLS 1.1"
    /\ arg = 771 => name = "TLS 1.2"
    /\ arg = 772 => name = "TLS 1.3"
    /\ arg \notin 769..772 =>
         /\ Len(name) = 16
         /\ SubSeq(name, 1, 11) = "Unknown (0x"
         /\ HexValue(SubSeq(name, 12, 15)) = arg
         /\ SubSeq(name, 16, 16) = ")"
    /\ arg = 39321 => name = "Unknown (0x9999)"

\* C15 witness: a code that needs zero padding and a letter digit was named.
C15_Witness ==
  /\ fn = "getTLSVersion"
  /\ arg = 10
  /\ results = <<"Unknown (0x000a)">>

\* A string carries a scheme when it starts with letters followed by "://".
Letters == {"a", "b", "c", "d", "e", "f", "g", "h", "i", "j", "k", "l", "m", "n", "o", "p", "q",
            "r", "s", "t", "u", "v", "w", "x", "y", "z", "A", "B", "C", "D", "E", "F", "G", "H",
            "I", "J", "K", "L", "M", "N", "O", "P", "Q", "R", "S", "T", "U", "V", "W", "X", "Y", "Z"}
CarriesScheme(str) ==
  \E i \in 2..(Len(str) - 2) :
    /\ SubSeq(str, i, i + 2) = "://"
    /\ \A j \in 1..(i - 1) : SubSeq(str, j, j) \in Letters

\* C17: AddDefaultProtocol prepends "https://" exactly when the input carries no
\* scheme, returns an input that carries one unchanged, and applied to its own result
\* changes nothing.
C17_PrependsExactlyWithoutScheme ==
  (fn = "AddDefaultProtocol" /\ results # <<>>) =>
    /\ results[1] = IF CarriesScheme(arg) THEN arg ELSE "https://" \o arg
    /\ \A k \in 2..Len(results) : results[k] = results[1]
====
